---- MODULE Spec2Model ----
(***************************************************************************)
(* TokenScraper: the ingestion pipeline of blockchain-collector.           *)
(*                                                                         *)
(* The module models blockchain-collector/collector.js (the scan cycle,    *)
(* its persisted cursor, the batcher) and                                  *)
(* blockchain-collector/services/tokenStorageService.js (the bulk upsert   *)
(* and its one-by-one fallback) over the Token collection of               *)
(* shared/models/Token.js.                                                 *)
(*                                                                         *)
(* Several specifications share the variables, among them:                 *)
(*   Spec       the scan cycles started at startup and by cron, the chain  *)
(*              growing underneath them, process restarts;                 *)
(*   SpecStore  calls of storeTokens at the granularity of the single      *)
(*              MongoDB upsert, two callers at a time;                     *)
(*   SpecBatch  one invocation of processTokensInBatches;                  *)
(*   SpecCycle  one invocation of fetchAndStoreTokens, chunk by chunk and  *)
(*              batch by batch.                                            *)
(* A specification leaves the variables of the others at their initial     *)
(* values.                                                                 *)
(***************************************************************************)
EXTENDS Integers, Sequences, FiniteSets, TLC

\* ------------------------------------------------------------------------
\* Program constants (collector.js)

\* const MAX_BLOCKS_PER_SCAN = 500
MAX_BLOCKS_PER_SCAN == 500
\* const CHUNK_SIZE = 1000
CHUNK_SIZE == 1000
\* RATE_LIMIT.initialDelay and RATE_LIMIT.maxDelay, in ms
initialDelay == 1000
maxDelay == 30000
\* BATCH_CONFIG.maxBatchSize
maxBatchSize == 50

\* ------------------------------------------------------------------------
\* Bounds of the model

\* chain height when the collector is first started
StartHeight == 100000
\* how many times the chain grows
MaxGrowths == 1
\* how many TokenCreated events the factory emits
MaxEvents == 1
\* how many times the process is restarted
MaxRestarts == 1

\* the most tokens processTokensInBatches is given
MaxTokens == 250
\* calls of storeTokens a caller makes with the same tokens
MaxCalls == 2
\* the most tokens a caller delivers at once
MaxDelivery == 2

\* the chain grows by one block, or by more blocks than one scan covers
\* (a scan covers startBlock..currentBlock: MAX_BLOCKS_PER_SCAN + 1 blocks)
Growth == {1, MAX_BLOCKS_PER_SCAN + 2}

\* the invocations of fetchAndStoreTokens that can be in flight at once
Slots == {1, 2}

\* the callers of storeTokens that can be in flight at once
Writers == {1, 2}

\* getLastProcessedBlock finds no state file
NoFile == -1

\* a document without blockNumber (written by a collector that did not
\* record it)
NoBlockNumber == -1

VARIABLES
  \* the chain (ChainClient)
  height,            \* current block number
  events,            \* TokenCreated logs of the factory: [block, token, decodable]
  growths,           \* how often the chain grew
  \* persistent state
  cursorFile,        \* lastBlock of state/blockState.json, or NoFile
  store,             \* the Token collection: a set of documents
  \* the process
  scheduled,         \* cron.schedule(fetchAndStoreTokens) has been called
  restarts,
  \* one invocation of fetchAndStoreTokens per slot
  pc,
  currentBlock,
  lastProcessedBlock,
  startBlock,
  chunkStart,
  allTokens,
  \* history of the invocation
  queried,           \* the getLogs ranges <<fromBlock, toBlock>> it issued
  coldStart,         \* it found no state file
  lostTokens,        \* decoded tokens the storage step failed to write
  firstScanned,      \* lowest block any getLogs call ever covered, 0: none yet
  written,           \* the value of the last writeFile that succeeded, or NoFile
  \* callers of storeTokens (SpecStore), one call after the other per caller
  wpc,               \* "idle", "bulk", "individual", "done"
  wtokens,           \* the tokens the caller delivers
  wi,                \* index of the operation in progress
  winsert,           \* the operation found no document and is about to insert
  werr,              \* an operation of the bulk write failed
  wnew,              \* newTokens counted by the call in progress
  wupd,              \* updatedTokens counted by the call in progress
  wcalls,            \* calls of the caller that have returned
  wres,              \* what the last of them returned
  wsnap,             \* the collection when the first of them returned
  wskipped,          \* an individual upsert of the caller failed
  interfered,        \* a caller has written after another began to deliver
  dupKey,            \* the unique index has refused an insert
  \* one invocation of processTokensInBatches (SpecBatch)
  bpc,               \* "store", "sleep", "done"
  btokens,           \* its argument
  bidx,              \* index of the batch in progress
  delay,             \* let delay, in 1/512 ms
  pauses,            \* the setTimeout pauses it has made, in order
  handed             \* the batches it has handed to storeTokens, in order

chainVars == <<height, events, growths>>
cycleVars == <<pc, currentBlock, lastProcessedBlock, startBlock, chunkStart, allTokens>>
histVars == <<queried, coldStart, lostTokens, firstScanned, written>>
scanVars == <<chainVars, cursorFile, store, scheduled, restarts, cycleVars, histVars>>

writerVars == <<wpc, wtokens, wi, winsert, werr, wnew, wupd, wcalls, wres, wsnap,
                wskipped, interfered, dupKey>>
batchVars == <<bpc, btokens, bidx, delay, pauses, handed>>

VARIABLES
  \* getDeployerFromTransaction and its callers (SpecResolve)
  deployerCache,     \* global.deployerCache: txHash -> deployer, or NotCached
  transactions,      \* the chain's transaction of each hash
  rcalls,            \* logs resolved so far
  rTx,               \* txHash of the last call of getDeployerFromTransaction
  rResult,           \* what it returned
  rFetched,          \* it called provider.getTransaction
  rFailed,           \* the last getTransaction made for the last log threw or returned nothing
  rPath,             \* where the last log's deployer came from: 1..4, 0: nowhere
  rEmitted,          \* the last log's token was pushed
  rDeployer          \* the deployer of the last log's token

resolveVars == <<deployerCache, transactions, rcalls, rTx, rResult, rFetched, rFailed,
                 rPath, rEmitted, rDeployer>>

VARIABLES
  \* findV3Pools and updateTokenWithPools for one token (SpecProbe)
  chainPools,        \* what the chain holds for each probe of the grid
  pdoc,              \* the token's document: v3Pools and hasV3Pool
  ppc,               \* "idle", "probe", "update"
  pk,                \* index of the probe in progress
  pools,             \* const pools = []
  pushed,            \* the answers behind the pool the last probe pushed, or NoPush
  pruns,             \* how often the token has been through updateTokenWithPools
  pwrote,            \* the findOneAndUpdate of the last run succeeded
  perr               \* a probe of the run in progress, or of the last run, was ended by an error

probeVars == <<chainPools, pdoc, ppc, pk, pools, pushed, pruns, pwrote, perr>>

VARIABLES
  \* decodeTokenCreatedEvent (SpecDecode)
  now,               \* the clock new Date() reads, in ms since the process started
  dlog,              \* the log being decoded
  decoded            \* the values the calls on dlog returned, in order

decodeVars == <<now, dlog, decoded>>

VARIABLES
  \* updateExistingTokenPools and processTokenPools (SpecPoolJob)
  setDefaultsOnInsert, \* Mongoose applies the schema's defaults when an upsert inserts
  tokenDocs,         \* hasV3Pool of each token's document, or "absent", "unset"
  jpc,               \* per invocation: "idle", "find", "probe", "update", "sleep"
  jtokens,           \* tokensToCheck
  ji,                \* index of the token in progress
  jfound,            \* findV3Pools returned a non-empty list
  probedTokens       \* the tokens updateTokenWithPools has written a marker for

jobVars == <<setDefaultsOnInsert, tokenDocs, jpc, jtokens, ji, jfound, probedTokens>>

VARIABLES
  \* the process (SpecProcess): "connecting", "running", "closing" (SIGTERM
  \* received, closeConnection awaited), "killed", "exit0", "exit1"
  proc,
  interrupted        \* the slots whose invocation was in flight when SIGTERM arrived

procVars == <<proc, interrupted>>

VARIABLES
  \* the chunk loop of one invocation of fetchAndStoreTokens (SpecCycle)
  chunkSize,         \* const CHUNK_SIZE
  cpauses,           \* the setTimeout pauses of the loop, in order, in 1/512 ms
  cfailed            \* the getLogs ranges whose query failed

loopVars == <<chunkSize, cpauses, cfailed>>

\* the variables of the later specifications
auxVars == <<resolveVars, probeVars, decodeVars, jobVars, procVars, loopVars>>

vars == <<scanVars, writerVars, batchVars, auxVars>>

\* ------------------------------------------------------------------------
\* Helpers

Min(a, b) == IF a <= b THEN a ELSE b
Max(a, b) == IF a >= b THEN a ELSE b

\* An address is <<id, case>>: ethers returns the checksummed (mixed case)
\* form, String.prototype.toLowerCase the lower-case one.
ToLowerCase(a) == <<a[1], "lower">>

\* decodedData[0] of the event of token t
TokenAddress(t) == <<t, "checksum">>

\* ------------------------------------------------------------------------
\* The Token collection (shared/models/Token.js) and the two upserts of
\* tokenStorageService.js.  A document is [id, contractAddress, name,
\* blockNumber]; name stands for the event's payload fields.

NextId(st) == IF st = {} THEN 1 ELSE 1 + (CHOOSE i \in {d.id : d \in st} : \A d \in st : d.id <= i)

\* filter: { contractAddress: token.contractAddress.toLowerCase() }
Filter(st, tok) == {d \in st : d.contractAddress = ToLowerCase(tok.contractAddress)}

\* the document updateOne / findOneAndUpdate acts on: the first match
FirstMatch(st, tok) == CHOOSE d \in Filter(st, tok) : \A e \in Filter(st, tok) : d.id <= e.id

\* a collection without the unique index
DuplicateKey_NoIndex(st, doc) == FALSE

\* contractAddress: { unique: true }: the insert is refused when another
\* document holds the same contractAddress
DuplicateKey(st, doc) == \E d \in st : d.contractAddress = doc.contractAddress

\* the document an upsert inserts; the schema's lowercase: true setter
\* normalises contractAddress
NewDoc(st, tok) ==
  [id |-> NextId(st), contractAddress |-> ToLowerCase(tok.contractAddress),
   name |-> tok.name, blockNumber |-> tok.blockNumber]

\* bulkWrite's updateOne: $set every field but blockNumber,
\* $setOnInsert blockNumber
BulkUpdate(doc, tok) == [doc EXCEPT !.name = tok.name]

\* findOneAndUpdate: $set the whole token, blockNumber included
IndividualUpdate(doc, tok) == [doc EXCEPT !.name = tok.name, !.blockNumber = tok.blockNumber]

\* one upsert, bulk (bulk = TRUE) or individual, acting at once
Upsert(st, tok, bulk) ==
  IF Filter(st, tok) # {}
  THEN LET d == FirstMatch(st, tok)
       IN (st \ {d}) \cup {IF bulk THEN BulkUpdate(d, tok) ELSE IndividualUpdate(d, tok)}
  ELSE IF DuplicateKey(st, NewDoc(st, tok)) THEN st ELSE st \cup {NewDoc(st, tok)}

\* the upserts of tokens[i], i \in ok, applied in order
RECURSIVE UpsertAll(_, _, _, _, _)
UpsertAll(st, tokens, ok, bulk, i) ==
  IF i > Len(tokens) THEN st
  ELSE UpsertAll(IF i \in ok THEN Upsert(st, tokens[i], bulk) ELSE st, tokens, ok, bulk, i + 1)

\* storeTokens(tokens) as one step: the bulk write applies the operations
\* bulkOk; when one of them failed the call falls back to
\* storeTokensIndividually, whose upserts indOk succeed
StoreTokens(st, tokens, bulkOk, indOk) ==
  IF Len(tokens) = 0 THEN st
  ELSE LET afterBulk == UpsertAll(st, tokens, bulkOk, TRUE, 1)
       IN IF bulkOk = 1..Len(tokens) THEN afterBulk
          ELSE UpsertAll(afterBulk, tokens, indOk, FALSE, 1)

\* the tokens of a call that no write reached
Unwritten(tokens, bulkOk, indOk) ==
  IF bulkOk = 1..Len(tokens) THEN {}
  ELSE {tokens[i] : i \in (1..Len(tokens)) \ (bulkOk \cup indOk)}

\* ------------------------------------------------------------------------
\* The chain

\* provider.getLogs({fromBlock, toBlock}): the factory's logs of the range
GetLogs(from, to) == {e \in events : from <= e.block /\ e.block <= to}

\* the logs in the order the provider returns them
RECURSIVE LogSeq(_)
LogSeq(es) ==
  IF es = {} THEN <<>>
  ELSE LET e == CHOOSE x \in es : \A y \in es : x.block < y.block \/ (x.block = y.block /\ x.token <= y.token)
       IN <<e>> \o LogSeq(es \ {e})

\* a loop that an undecodable log ends: the logs after it are not decoded
DecodeLogs_StopsAtBadLog(logs) ==
  LET good == {n \in 0..Len(logs) : \A i \in 1..n : logs[i].decodable}
      last == CHOOSE n \in good : \A k \in good : k <= n
  IN [i \in 1..last |-> [contractAddress |-> ToLowerCase(TokenAddress(logs[i].token)),
                         name |-> logs[i].token,
                         blockNumber |-> logs[i].block]]

\* lines 269-301: decode each log; a log that fails to decode is skipped
RECURSIVE DecodeLogs(_)
DecodeLogs(logs) ==
  IF logs = <<>> THEN <<>>
  ELSE (IF Head(logs).decodable
        THEN <<[contractAddress |-> ToLowerCase(TokenAddress(Head(logs).token)),
                name |-> Head(logs).token,
                blockNumber |-> Head(logs).block]>>
        ELSE <<>>) \o DecodeLogs(Tail(logs))

\* the chain grows by d blocks; the factory may emit one event in the first
\* or in the last of the new blocks
AdvanceChain ==
  /\ growths < MaxGrowths
  /\ UNCHANGED <<writerVars, batchVars, auxVars>>
  /\ \E d \in Growth :
       /\ height' = height + d
       /\ \/ events' = events
          \/ /\ Cardinality(events) < MaxEvents
             /\ \E b \in {height + 1, height + d}, ok \in BOOLEAN :
                  events' = events \cup {[block |-> b, token |-> Cardinality(events) + 1, decodable |-> ok]}
  /\ growths' = growths + 1
  /\ UNCHANGED <<cursorFile, store, scheduled, restarts, cycleVars, histVars>>

\* ------------------------------------------------------------------------
\* The cursor (collector.js, getLastProcessedBlock / saveLastProcessedBlock)

\* a reader that does not find the value the file holds
GetLastProcessedBlock_Forgets(file) == 0

\* readFile + JSON.parse; any error, a missing file included, yields 0
GetLastProcessedBlock(file) == IF file = NoFile THEN 0 ELSE file

\* writeFile({ lastBlock: blockNumber }); an error is logged and swallowed
SaveLastProcessedBlock(file, blockNumber, ok) == IF ok THEN blockNumber ELSE file

\* ------------------------------------------------------------------------
\* fetchAndStoreTokens, one action per await

\* lines 238-243
ScanRange(cur, last) == Min(cur - last, MAX_BLOCKS_PER_SCAN)
StartBlock(cur, last) == Max(0, cur - ScanRange(cur, last))

\* line 251
ChunkEnd(cs, cur, size) == Min(cs + size - 1, cur)

\* the invocation of slot s is over: its locals are gone
Return(s) ==
  /\ pc' = [pc EXCEPT ![s] = "idle"]
  /\ currentBlock' = [currentBlock EXCEPT ![s] = 0]
  /\ lastProcessedBlock' = [lastProcessedBlock EXCEPT ![s] = 0]
  /\ startBlock' = [startBlock EXCEPT ![s] = 0]
  /\ chunkStart' = [chunkStart EXCEPT ![s] = 0]
  /\ allTokens' = [allTokens EXCEPT ![s] = <<>>]
  /\ queried' = [queried EXCEPT ![s] = {}]
  /\ coldStart' = [coldStart EXCEPT ![s] = FALSE]
  /\ lostTokens' = [lostTokens EXCEPT ![s] = {}]
  /\ scheduled' = TRUE

\* a cron tick (line 378: cron.schedule('* * * * *', fetchAndStoreTokens))
\* starts an invocation; it does not look at the invocations still running.
\* The jobs are scheduled once the startup scan has returned (lines 371-378).
\* An invocation takes the lowest free slot.
Begin(s) ==
  /\ pc[s] = "idle"
  /\ \A r \in Slots : r < s => pc[r] # "idle"
  /\ scheduled
  /\ UNCHANGED <<writerVars, batchVars, auxVars>>
  /\ pc' = [pc EXCEPT ![s] = "getBlockNumber"]
  /\ UNCHANGED <<chainVars, cursorFile, store, scheduled, restarts, histVars,
                 currentBlock, lastProcessedBlock, startBlock, chunkStart, allTokens>>

\* an invocation that, when it cannot read the chain height, writes the
\* height it did not get to the state file: { lastBlock: undefined } is
\* stored as {}, a file without a cursor
GetBlockNumber_SavesOnError(s) ==
  /\ pc[s] = "getBlockNumber"
  /\ UNCHANGED <<writerVars, batchVars, auxVars>>
  /\ \/ /\ currentBlock' = [currentBlock EXCEPT ![s] = height]
        /\ pc' = [pc EXCEPT ![s] = "getLastProcessedBlock"]
        /\ UNCHANGED <<cursorFile, scheduled, lastProcessedBlock, startBlock, chunkStart, allTokens, histVars>>
     \/ /\ Return(s)
        /\ cursorFile' = NoFile
        /\ UNCHANGED <<firstScanned, written>>
  /\ UNCHANGED <<chainVars, store, restarts>>

\* line 222: provider.getBlockNumber(); an error ends the invocation (line 329)
GetBlockNumber(s) ==
  /\ pc[s] = "getBlockNumber"
  /\ UNCHANGED <<writerVars, batchVars, auxVars>>
  /\ \/ /\ currentBlock' = [currentBlock EXCEPT ![s] = height]
        /\ pc' = [pc EXCEPT ![s] = "getLastProcessedBlock"]
        /\ UNCHANGED <<scheduled, lastProcessedBlock, startBlock, chunkStart, allTokens, histVars>>
     \/ /\ Return(s)
        /\ UNCHANGED <<firstScanned, written>>
  /\ UNCHANGED <<chainVars, cursorFile, store, restarts>>

\* lines 226-248
ReadCursor(s) ==
  /\ pc[s] = "getLastProcessedBlock"
  /\ UNCHANGED <<writerVars, batchVars, auxVars>>
  /\ LET last == GetLastProcessedBlock(cursorFile)
     IN IF currentBlock[s] <= last
        THEN Return(s)
        ELSE /\ pc' = [pc EXCEPT ![s] = "chunk"]
             /\ lastProcessedBlock' = [lastProcessedBlock EXCEPT ![s] = last]
             /\ coldStart' = [coldStart EXCEPT ![s] = (cursorFile = NoFile)]
             /\ startBlock' = [startBlock EXCEPT ![s] = StartBlock(currentBlock[s], last)]
             /\ chunkStart' = [chunkStart EXCEPT ![s] = StartBlock(currentBlock[s], last)]
             /\ UNCHANGED <<scheduled, currentBlock, allTokens, queried, lostTokens>>
  /\ UNCHANGED <<chainVars, cursorFile, store, restarts, firstScanned, written>>

\* lines 250-316, one iteration: getLogs of the chunk, which may fail
QueryChunk(s) ==
  /\ pc[s] = "chunk"
  /\ chunkStart[s] < currentBlock[s]
  /\ UNCHANGED <<writerVars, batchVars, auxVars>>
  /\ LET chunkEnd == ChunkEnd(chunkStart[s], currentBlock[s], CHUNK_SIZE)
     IN /\ queried' = [queried EXCEPT ![s] = @ \cup {<<chunkStart[s], chunkEnd>>}]
        /\ firstScanned' = IF firstScanned = 0 THEN chunkStart[s] ELSE Min(firstScanned, chunkStart[s])
        /\ \/ allTokens' = [allTokens EXCEPT ![s] = @ \o DecodeLogs(LogSeq(GetLogs(chunkStart[s], chunkEnd)))]
           \/ UNCHANGED allTokens
  /\ chunkStart' = [chunkStart EXCEPT ![s] = @ + CHUNK_SIZE]
  /\ UNCHANGED <<chainVars, cursorFile, store, scheduled, restarts, pc, currentBlock,
                 lastProcessedBlock, startBlock, coldStart, lostTokens, written>>

\* lines 318-324: processTokensInBatches over the accumulated tokens
Persist(s) ==
  /\ pc[s] = "chunk"
  /\ chunkStart[s] >= currentBlock[s]
  /\ UNCHANGED <<writerVars, batchVars, auxVars>>
  /\ \E bulkOk \in SUBSET (1..Len(allTokens[s])), indOk \in SUBSET (1..Len(allTokens[s])) :
       /\ (bulkOk = 1..Len(allTokens[s])) => indOk = {}
       /\ store' = StoreTokens(store, allTokens[s], bulkOk, indOk)
       /\ lostTokens' = [lostTokens EXCEPT ![s] = Unwritten(allTokens[s], bulkOk, indOk)]
  /\ pc' = [pc EXCEPT ![s] = "save"]
  /\ UNCHANGED <<chainVars, cursorFile, scheduled, restarts, currentBlock, lastProcessedBlock,
                 startBlock, chunkStart, allTokens, queried, coldStart, firstScanned, written>>

\* a caller that does not wait for the batcher
BatcherReturned_NotAwaited == TRUE

\* line 320: await processTokensInBatches(allTokens, provider) has resolved
BatcherReturned == bpc = "done"

\* line 327
SaveCursor(s) ==
  /\ pc[s] = "save"
  /\ BatcherReturned
  /\ UNCHANGED <<writerVars, batchVars, auxVars>>
  /\ \E ok \in BOOLEAN :
       /\ cursorFile' = SaveLastProcessedBlock(cursorFile, currentBlock[s], ok)
       /\ written' = IF ok THEN currentBlock[s] ELSE written
  /\ Return(s)
  /\ UNCHANGED <<chainVars, store, restarts, firstScanned>>

\* the process exits and is started again: every invocation in flight is
\* gone, the state file and the collection stay; the startup scan begins
Restart ==
  /\ restarts < MaxRestarts
  /\ UNCHANGED <<writerVars, batchVars, auxVars>>
  /\ restarts' = restarts + 1
  /\ scheduled' = FALSE
  /\ pc' = [s \in Slots |-> IF s = 1 THEN "getBlockNumber" ELSE "idle"]
  /\ currentBlock' = [s \in Slots |-> 0]
  /\ lastProcessedBlock' = [s \in Slots |-> 0]
  /\ startBlock' = [s \in Slots |-> 0]
  /\ chunkStart' = [s \in Slots |-> 0]
  /\ allTokens' = [s \in Slots |-> <<>>]
  /\ queried' = [s \in Slots |-> {}]
  /\ coldStart' = [s \in Slots |-> FALSE]
  /\ lostTokens' = [s \in Slots |-> {}]
  /\ UNCHANGED <<chainVars, cursorFile, store, firstScanned, written>>

\* ------------------------------------------------------------------------
\* storeTokens step by step (tokenStorageService.js): one action per MongoDB
\* operation.  An upsert that matches a document updates it at once; one
\* that matches none inserts in a second step, and the unique index on
\* contractAddress decides whether the insert is accepted.

\* caller 1 delivers its tokens MaxCalls times (a cycle that is repeated),
\* the others once
Calls(w) == IF w = 1 THEN MaxCalls ELSE 1

\* caller v has begun to deliver
Delivering(v) == wpc[v] \in {"bulk", "individual"} \/ wcalls[v] > 0

\* no call has returned yet
NoResult == [success |-> FALSE, newTokens |-> 0, updatedTokens |-> 0]

\* the call of caller w returns { success: true, newTokens, updatedTokens }
StoreReturn(w, st, new, upd) ==
  /\ wcalls' = [wcalls EXCEPT ![w] = @ + 1]
  /\ wres' = [wres EXCEPT ![w] = [success |-> TRUE, newTokens |-> new, updatedTokens |-> upd]]
  /\ wsnap' = [wsnap EXCEPT ![w] = IF wcalls[w] = 0 THEN st ELSE @]
  /\ wpc' = [wpc EXCEPT ![w] = IF wcalls[w] + 1 < Calls(w) THEN "idle" ELSE "done"]
  /\ wi' = [wi EXCEPT ![w] = 0]
  /\ werr' = [werr EXCEPT ![w] = FALSE]
  /\ wnew' = [wnew EXCEPT ![w] = 0]
  /\ wupd' = [wupd EXCEPT ![w] = 0]

\* a fallback that goes on counting from the counts of the bulk write
Advance_KeepsCounts(w, st, err, new, upd) ==
  /\ store' = st
  /\ winsert' = [winsert EXCEPT ![w] = FALSE]
  /\ interfered' = (interfered \/ (st # store /\ \E v \in Writers \ {w} : Delivering(v)))
  /\ IF wi[w] < Len(wtokens[w])
     THEN /\ wi' = [wi EXCEPT ![w] = @ + 1]
          /\ werr' = [werr EXCEPT ![w] = err]
          /\ wnew' = [wnew EXCEPT ![w] = new]
          /\ wupd' = [wupd EXCEPT ![w] = upd]
          /\ UNCHANGED <<wpc, wcalls, wres, wsnap>>
     ELSE IF wpc[w] = "bulk" /\ err
          THEN /\ wpc' = [wpc EXCEPT ![w] = "individual"]
               /\ wi' = [wi EXCEPT ![w] = 1]
               /\ werr' = [werr EXCEPT ![w] = FALSE]
               /\ wnew' = [wnew EXCEPT ![w] = new]
               /\ wupd' = [wupd EXCEPT ![w] = upd]
               /\ UNCHANGED <<wcalls, wres, wsnap>>
          ELSE StoreReturn(w, st, new, upd)

\* the operation in progress of caller w is over, leaving the collection st,
\* the error flag err and the counts new and upd: the next operation, the
\* fallback (lines 54-60) or the return (lines 49-53, 106-110)
Advance(w, st, err, new, upd) ==
  /\ store' = st
  /\ winsert' = [winsert EXCEPT ![w] = FALSE]
  /\ interfered' = (interfered \/ (st # store /\ \E v \in Writers \ {w} : Delivering(v)))
  /\ IF wi[w] < Len(wtokens[w])
     THEN /\ wi' = [wi EXCEPT ![w] = @ + 1]
          /\ werr' = [werr EXCEPT ![w] = err]
          /\ wnew' = [wnew EXCEPT ![w] = new]
          /\ wupd' = [wupd EXCEPT ![w] = upd]
          /\ UNCHANGED <<wpc, wcalls, wres, wsnap>>
     ELSE IF wpc[w] = "bulk" /\ err
          THEN /\ wpc' = [wpc EXCEPT ![w] = "individual"]
               /\ wi' = [wi EXCEPT ![w] = 1]
               /\ werr' = [werr EXCEPT ![w] = FALSE]
               /\ wnew' = [wnew EXCEPT ![w] = 0]
               /\ wupd' = [wupd EXCEPT ![w] = 0]
               /\ UNCHANGED <<wcalls, wres, wsnap>>
          ELSE StoreReturn(w, st, new, upd)

\* lines 9-33: storeTokens is called; an empty array returns at once
CallStoreTokens(w) ==
  /\ UNCHANGED <<chainVars, cursorFile, scheduled, restarts, cycleVars, histVars, batchVars, auxVars>>
  /\ wpc[w] = "idle"
  /\ UNCHANGED <<store, wtokens, winsert, wskipped, interfered, dupKey>>
  /\ IF Len(wtokens[w]) = 0
     THEN StoreReturn(w, store, 0, 0)
     ELSE /\ wpc' = [wpc EXCEPT ![w] = "bulk"]
          /\ wi' = [wi EXCEPT ![w] = 1]
          /\ UNCHANGED <<werr, wnew, wupd, wcalls, wres, wsnap>>

\* lines 39-42, one updateOne of the unordered bulk write: it fails, it
\* updates the document it matches, or it finds none
BulkOp(w) ==
  /\ UNCHANGED <<chainVars, cursorFile, scheduled, restarts, cycleVars, histVars, batchVars, auxVars>>
  /\ wpc[w] = "bulk"
  /\ ~winsert[w]
  /\ UNCHANGED <<wtokens, wskipped, dupKey>>
  /\ LET tok == wtokens[w][wi[w]]
     IN \/ Advance(w, store, TRUE, wnew[w], wupd[w])
        \/ /\ Filter(store, tok) # {}
           /\ Advance(w, Upsert(store, tok, TRUE), werr[w], wnew[w], wupd[w] + 1)
        \/ /\ Filter(store, tok) = {}
           /\ winsert' = [winsert EXCEPT ![w] = TRUE]
           /\ UNCHANGED <<store, wpc, wi, werr, wnew, wupd, wcalls, wres, wsnap, interfered>>

\* the insert of an updateOne that matched nothing
BulkInsert(w) ==
  /\ UNCHANGED <<chainVars, cursorFile, scheduled, restarts, cycleVars, histVars, batchVars, auxVars>>
  /\ wpc[w] = "bulk"
  /\ winsert[w]
  /\ UNCHANGED <<wtokens, wskipped>>
  /\ LET doc == NewDoc(store, wtokens[w][wi[w]])
     IN IF DuplicateKey(store, doc)
        THEN /\ dupKey' = TRUE
             /\ Advance(w, store, TRUE, wnew[w], wupd[w])
        ELSE /\ UNCHANGED dupKey
             /\ Advance(w, store \cup {doc}, werr[w], wnew[w] + 1, wupd[w])

\* a fallback whose loop ends at the first findOneAndUpdate that fails
IndividualOp_StopsOnError(w) ==
  /\ UNCHANGED <<chainVars, cursorFile, scheduled, restarts, cycleVars, histVars, batchVars, auxVars>>
  /\ wpc[w] = "individual"
  /\ ~winsert[w]
  /\ UNCHANGED <<wtokens, dupKey>>
  /\ LET tok == wtokens[w][wi[w]]
     IN \/ /\ wskipped' = [wskipped EXCEPT ![w] = TRUE]
           /\ StoreReturn(w, store, wnew[w], wupd[w])
           /\ UNCHANGED <<store, winsert, interfered>>
        \/ /\ Filter(store, tok) # {}
           /\ UNCHANGED wskipped
           /\ Advance(w, Upsert(store, tok, FALSE), FALSE, wnew[w], wupd[w] + 1)
        \/ /\ Filter(store, tok) = {}
           /\ winsert' = [winsert EXCEPT ![w] = TRUE]
           /\ UNCHANGED <<store, wpc, wi, werr, wnew, wupd, wcalls, wres, wsnap, interfered, wskipped>>

\* lines 74-98, one findOneAndUpdate of the fallback: it fails and the token
\* is skipped, it updates the document it matches, or it finds none
IndividualOp(w) ==
  /\ UNCHANGED <<chainVars, cursorFile, scheduled, restarts, cycleVars, histVars, batchVars, auxVars>>
  /\ wpc[w] = "individual"
  /\ ~winsert[w]
  /\ UNCHANGED <<wtokens, dupKey>>
  /\ LET tok == wtokens[w][wi[w]]
     IN \/ /\ wskipped' = [wskipped EXCEPT ![w] = TRUE]
           /\ Advance(w, store, FALSE, wnew[w], wupd[w])
        \/ /\ Filter(store, tok) # {}
           /\ UNCHANGED wskipped
           /\ Advance(w, Upsert(store, tok, FALSE), FALSE, wnew[w], wupd[w] + 1)
        \/ /\ Filter(store, tok) = {}
           /\ winsert' = [winsert EXCEPT ![w] = TRUE]
           /\ UNCHANGED <<store, wpc, wi, werr, wnew, wupd, wcalls, wres, wsnap, interfered, wskipped>>

\* the insert of a findOneAndUpdate that matched nothing; the result counts
\* as new when createdAt equals updatedAt, that is, when it was inserted
IndividualInsert(w) ==
  /\ UNCHANGED <<chainVars, cursorFile, scheduled, restarts, cycleVars, histVars, batchVars, auxVars>>
  /\ wpc[w] = "individual"
  /\ winsert[w]
  /\ UNCHANGED wtokens
  /\ LET doc == NewDoc(store, wtokens[w][wi[w]])
     IN IF DuplicateKey(store, doc)
        THEN /\ dupKey' = TRUE
             /\ wskipped' = [wskipped EXCEPT ![w] = TRUE]
             /\ Advance(w, store, FALSE, wnew[w], wupd[w])
        ELSE /\ UNCHANGED <<dupKey, wskipped>>
             /\ Advance(w, store \cup {doc}, FALSE, wnew[w] + 1, wupd[w])

\* the token of address a as a caller passes it
Tok(a, case) == [contractAddress |-> <<a, case>>, name |-> a, blockNumber |-> StartHeight]

\* what callers deliver: a token with its address in checksum case, one
\* with its address in lower case
Deliverable == {Tok(1, "checksum"), Tok(2, "lower")}

\* the sequences of length n over S
SeqsOfLen(S, n) == [1..n -> S]

Deliveries == UNION {SeqsOfLen(Deliverable, n) : n \in 0..MaxDelivery}

\* a document of address 1 that an earlier run left without blockNumber
PriorDoc == [id |-> 1, contractAddress |-> <<1, "lower">>, name |-> 1, blockNumber |-> NoBlockNumber]

\* ------------------------------------------------------------------------
\* processTokensInBatches (collector.js lines 182-206)

\* A delay is kept in 1/512 ms: the products of 1000 by powers of 1.5 that
\* stay below maxDelay are then whole numbers, as they are exact doubles.
Fixed(ms) == ms * 512

\* delay * RATE_LIMIT.backoffFactor, backoffFactor being 1.5
TimesBackoffFactor(d) == (d * 3) \div 2

\* line 198
DelayAfterPause(d) == Min(TimesBackoffFactor(d), Fixed(maxDelay))

\* a failure branch that forgets the cap
DelayAfterError_NoCap(d) == TimesBackoffFactor(d) * 2

\* a failure branch that escalates by one backoffFactor step
DelayAfterError_OneStep(d) == Min(TimesBackoffFactor(d), Fixed(maxDelay))

\* line 203
DelayAfterError(d) == Min(TimesBackoffFactor(d) * 2, Fixed(maxDelay))

\* a slice that takes one token too many
Batches_Overlap(tokens) ==
  [k \in 1..((Len(tokens) + maxBatchSize - 1) \div maxBatchSize) |->
     SubSeq(tokens, (k - 1) * maxBatchSize + 1, Min(k * maxBatchSize + 1, Len(tokens)))]

\* lines 183-186
NumBatches(tokens) == (Len(tokens) + maxBatchSize - 1) \div maxBatchSize
Batches(tokens) ==
  [k \in 1..NumBatches(tokens) |->
     SubSeq(tokens, (k - 1) * maxBatchSize + 1, Min(k * maxBatchSize, Len(tokens)))]

\* a loop that a failure or a pause ends
BatchLoopEnd_Stops(last) == bpc' = "done" /\ UNCHANGED bidx

\* the batches are over
BatchLoopEnd(last) ==
  IF last
  THEN bpc' = "done" /\ UNCHANGED bidx
  ELSE bpc' = "store" /\ bidx' = bidx + 1

\* lines 190-204: await storeTokens(batch); it resolves, and a pause follows
\* unless the batch is the last, or it rejects, and the delay is escalated
BatchStore ==
  /\ UNCHANGED <<scanVars, writerVars, auxVars>>
  /\ bpc = "store"
  /\ handed' = Append(handed, Batches(btokens)[bidx])
  /\ UNCHANGED <<btokens, pauses>>
  /\ \/ /\ UNCHANGED delay
        /\ IF bidx < NumBatches(btokens)
           THEN bpc' = "sleep" /\ UNCHANGED bidx
           ELSE BatchLoopEnd(TRUE)
     \/ /\ delay' = DelayAfterError(delay)
        /\ BatchLoopEnd(bidx = NumBatches(btokens))

\* lines 197-198: the pause between two batches, then the next delay
BatchSleep ==
  /\ UNCHANGED <<scanVars, writerVars, auxVars>>
  /\ bpc = "sleep"
  /\ pauses' = Append(pauses, delay)
  /\ delay' = DelayAfterPause(delay)
  /\ BatchLoopEnd(FALSE)
  /\ UNCHANGED <<btokens, handed>>

InitScan ==
  /\ height = StartHeight
  /\ events \in {{}} \cup {{[block |-> b, token |-> 1, decodable |-> TRUE]} :
                          b \in {StartHeight - MAX_BLOCKS_PER_SCAN - 1, StartHeight - MAX_BLOCKS_PER_SCAN, StartHeight}}
  /\ growths = 0
  /\ cursorFile = NoFile
  /\ store = {}
  /\ scheduled = FALSE
  /\ restarts = 0
  /\ pc = [s \in Slots |-> IF s = 1 THEN "getBlockNumber" ELSE "idle"]
  /\ currentBlock = [s \in Slots |-> 0]
  /\ lastProcessedBlock = [s \in Slots |-> 0]
  /\ startBlock = [s \in Slots |-> 0]
  /\ chunkStart = [s \in Slots |-> 0]
  /\ allTokens = [s \in Slots |-> <<>>]
  /\ queried = [s \in Slots |-> {}]
  /\ coldStart = [s \in Slots |-> FALSE]
  /\ lostTokens = [s \in Slots |-> {}]
  /\ firstScanned = 0
  /\ written = NoFile

\* no scan cycle runs
ScanIdle ==
  /\ height = StartHeight
  /\ events = {}
  /\ growths = 0
  /\ cursorFile = NoFile
  /\ scheduled = FALSE
  /\ restarts = 0
  /\ pc = [s \in Slots |-> "idle"]
  /\ currentBlock = [s \in Slots |-> 0]
  /\ lastProcessedBlock = [s \in Slots |-> 0]
  /\ startBlock = [s \in Slots |-> 0]
  /\ chunkStart = [s \in Slots |-> 0]
  /\ allTokens = [s \in Slots |-> <<>>]
  /\ queried = [s \in Slots |-> {}]
  /\ coldStart = [s \in Slots |-> FALSE]
  /\ lostTokens = [s \in Slots |-> {}]
  /\ firstScanned = 0
  /\ written = NoFile

\* nobody calls storeTokens step by step
WritersIdle ==
  /\ wpc = [w \in Writers |-> "done"]
  /\ wtokens = [w \in Writers |-> <<>>]
  /\ wi = [w \in Writers |-> 0]
  /\ winsert = [w \in Writers |-> FALSE]
  /\ werr = [w \in Writers |-> FALSE]
  /\ wnew = [w \in Writers |-> 0]
  /\ wupd = [w \in Writers |-> 0]
  /\ wcalls = [w \in Writers |-> 0]
  /\ wres = [w \in Writers |-> NoResult]
  /\ wsnap = [w \in Writers |-> {}]
  /\ wskipped = [w \in Writers |-> FALSE]
  /\ interfered = FALSE
  /\ dupKey = FALSE

\* processTokensInBatches is not followed step by step
BatcherIdle ==
  /\ bpc = "done"
  /\ btokens = <<>>
  /\ bidx = 0
  /\ delay = 0
  /\ pauses = <<>>
  /\ handed = <<>>

\* ------------------------------------------------------------------------
\* getDeployerFromTransaction (collector.js lines 76-158) and the deployer a
\* token is given (collector.js lines 283-295; the earlier collector,
\* lines 203-234)

\* how many logs get their deployer resolved
MaxLogs == 3

\* null, the string 'unknown', and a key the cache does not hold; they have
\* the shape of an address so that they compare with one
Null == <<0, "null">>
Unknown == <<0, "unknown">>
NotCached == <<0, "notCached">>

\* ethers.ZeroAddress has no letters: one form only
ZeroAddress == <<0, "lower">>
\* 0x903878B49BBA6c55d14857fBc25805De7825e231
RelayAddress == <<9, "checksum">>
\* the deployer KNOWN_DEPLOYERS gives for the known hash
KnownDeployer == <<5, "checksum">>
\* two other accounts
UserA == <<3, "checksum">>
UserB == <<4, "checksum">>

\* the hashes the resolver is called with: the known hash in both cases and
\* an unknown one
KnownHash == <<1, "lower">>
TxHashes == {KnownHash, <<1, "upper">>, <<2, "lower">>}

\* lines 63-66
EXCLUDED_DEPLOYERS == {ToLowerCase(RelayAddress), ToLowerCase(ZeroAddress)}

\* a check that compares the address as it is spelt
ShouldExcludeAddress_AsSpelt(address) ==
  IF address = Null THEN TRUE ELSE address \in EXCLUDED_DEPLOYERS

\* lines 69-74
ShouldExcludeAddress(address) ==
  IF address = Null THEN TRUE ELSE ToLowerCase(address) \in EXCLUDED_DEPLOYERS

\* a lookup that takes the hash as it is spelt
NormalizeTxHash_AsSpelt(txHash) == txHash

\* line 88: txHash.toLowerCase()
NormalizeTxHash(txHash) == ToLowerCase(txHash)

\* lines 55-60, KNOWN_DEPLOYERS[h]: undefined (here Null) for a key it lacks
KNOWN_DEPLOYERS(h) == IF h = KnownHash THEN KnownDeployer ELSE Null

\* what a transaction can be: a deployToken call naming a deployer, one
\* naming the relay or the zero address, a call of another method
TxKinds ==
  {[method |-> "deployToken", deployer |-> UserA, from |-> RelayAddress],
   [method |-> "deployToken", deployer |-> RelayAddress, from |-> RelayAddress],
   [method |-> "deployToken", deployer |-> ZeroAddress, from |-> UserB],
   [method |-> "other", deployer |-> Null, from |-> RelayAddress]}

\* provider.getTransaction resolves with the transaction, resolves with
\* nothing, or rejects
Fetches == {"ok", "nothing", "throw"}

\* decodedData[2] of the events
LegacyDeployers == {UserB, RelayAddress}

\* where a deployer the resolver returned for txHash came from: the table
\* (1), the calldata (2), nowhere (0)
ResolverPath(txHash, result) ==
  IF result = Null THEN 0
  ELSE IF KNOWN_DEPLOYERS(NormalizeTxHash(txHash)) # Null THEN 1 ELSE 2

\* a resolver that also remembers that a hash gave nothing
GetDeployerFromTransaction_CachesNull(cache, txHash, fetch) ==
  LET known == KNOWN_DEPLOYERS(NormalizeTxHash(txHash))
      tx == transactions[txHash[1]]
      found(v) == [result |-> v, cache |-> [cache EXCEPT ![txHash] = v],
                   fetched |-> (known = Null), failed |-> FALSE]
      none(f) == [result |-> Null, cache |-> [cache EXCEPT ![txHash] = Null],
                  fetched |-> TRUE, failed |-> f]
  IN IF cache[txHash] # NotCached
     THEN [result |-> cache[txHash], cache |-> cache, fetched |-> FALSE, failed |-> FALSE]
     ELSE IF known # Null THEN found(known)
     ELSE IF fetch # "ok" THEN none(TRUE)
     ELSE IF tx.method = "deployToken" /\ ~ShouldExcludeAddress(tx.deployer)
          THEN found(tx.deployer)
          ELSE none(FALSE)

\* getDeployerFromTransaction(txHash, provider), fetch being the outcome of
\* provider.getTransaction should it be called: the value returned, the
\* cache afterwards, whether the transaction was fetched and whether the
\* fetch failed
GetDeployerFromTransaction(cache, txHash, fetch) ==
  LET known == KNOWN_DEPLOYERS(NormalizeTxHash(txHash))
      tx == transactions[txHash[1]]
      found(v) == [result |-> v, cache |-> [cache EXCEPT ![txHash] = v],
                   fetched |-> (known = Null), failed |-> FALSE]
      none(f) == [result |-> Null, cache |-> cache, fetched |-> TRUE, failed |-> f]
  IN IF cache[txHash] # NotCached
     THEN [result |-> cache[txHash], cache |-> cache, fetched |-> FALSE, failed |-> FALSE]
     ELSE IF known # Null THEN found(known)
     ELSE IF fetch # "ok" THEN none(TRUE)
     ELSE IF tx.method = "deployToken" /\ ~ShouldExcludeAddress(tx.deployer)
          THEN found(tx.deployer)
          ELSE none(FALSE)

\* deployer.toLowerCase() of a value that may be null or 'unknown'
DeployerField(d) == IF d \in {Null, Unknown} THEN d ELSE ToLowerCase(d)

\* collector.js lines 283-297: the token's deployer is what the resolver
\* returns, or null; the token is pushed
ResolveDeployer ==
  /\ UNCHANGED <<scanVars, writerVars, batchVars, probeVars, decodeVars, jobVars, procVars, loopVars>>
  /\ rcalls < MaxLogs
  /\ rcalls' = rcalls + 1
  /\ UNCHANGED transactions
  /\ \E txHash \in TxHashes, fetch \in Fetches :
       LET r == GetDeployerFromTransaction(deployerCache, txHash, fetch)
       IN /\ deployerCache' = r.cache
          /\ rTx' = txHash
          /\ rResult' = r.result
          /\ rFetched' = r.fetched
          /\ rFailed' = r.failed
          /\ rPath' = ResolverPath(txHash, r.result)
          /\ rEmitted' = TRUE
          /\ rDeployer' = DeployerField(r.result)

\* the earlier collector, lines 203-234: the resolver's value unless
\* excluded, else the event's legacyDeployer unless excluded, else the
\* sender of the transaction, fetched again; an exception drops the log
ResolveFinalDeployer ==
  /\ UNCHANGED <<scanVars, writerVars, batchVars, probeVars, decodeVars, jobVars, procVars, loopVars>>
  /\ rcalls < MaxLogs
  /\ rcalls' = rcalls + 1
  /\ UNCHANGED transactions
  /\ \E txHash \in TxHashes, fetch \in Fetches, again \in Fetches, legacyDeployer \in LegacyDeployers :
       LET r == GetDeployerFromTransaction(deployerCache, txHash, fetch)
           paramDeployer == r.result
           path == IF paramDeployer # Null /\ ~ShouldExcludeAddress(paramDeployer)
                   THEN ResolverPath(txHash, paramDeployer)
                   ELSE IF ~ShouldExcludeAddress(legacyDeployer) THEN 3 ELSE 4
           finalDeployer == IF path \in {1, 2} THEN paramDeployer
                            ELSE IF path = 3 THEN legacyDeployer
                            ELSE IF again = "ok" THEN transactions[txHash[1]].from
                            ELSE Unknown
       IN /\ (path # 4) => again = "ok"
          /\ deployerCache' = r.cache
          /\ rTx' = txHash
          /\ rResult' = r.result
          /\ rFetched' = r.fetched
          /\ rFailed' = IF path = 4 THEN again # "ok" ELSE r.failed
          /\ rPath' = path
          /\ rEmitted' = ~(path = 4 /\ again = "throw")
          /\ rDeployer' = IF path = 4 /\ again = "throw" THEN Null ELSE DeployerField(finalDeployer)

\* no log has been resolved
ResolverIdle ==
  /\ deployerCache = [h \in TxHashes |-> NotCached]
  /\ rcalls = 0
  /\ rTx = KnownHash
  /\ rResult = Null
  /\ rFetched = FALSE
  /\ rFailed = FALSE
  /\ rPath = 0
  /\ rEmitted = FALSE
  /\ rDeployer = Null

\* ------------------------------------------------------------------------
\* poolService.js: findV3Pools and updateTokenWithPools

\* how many probes of the grid find the factory holding a pool
MaxPoolCells == 2
\* how often the token is taken through updateTokenWithPools
MaxRuns == 2

\* COMMON_PAIRS (address and symbol) and FEE_TIERS
COMMON_PAIRS ==
  <<[address |-> <<11, "checksum">>, symbol |-> "WETH"],
    [address |-> <<12, "checksum">>, symbol |-> "USDbC"],
    [address |-> <<13, "checksum">>, symbol |-> "USDC"]>>
FEE_TIERS == <<500, 3000, 10000>>

\* the probes in the order of the two loops (lines 52-53): pair by pair, and
\* for each pair fee by fee
Grid == 1..(Len(COMMON_PAIRS) * Len(FEE_TIERS))
PairOf(k) == COMMON_PAIRS[((k - 1) \div Len(FEE_TIERS)) + 1]
FeeOf(k) == FEE_TIERS[((k - 1) % Len(FEE_TIERS)) + 1]

\* token.contractAddress of the token probed, as the store holds it, and
\* the address of another token
ProbedToken == <<1, "lower">>
OtherToken == <<2, "checksum">>

\* what the chain answers at probe k: the factory has no pool ("zero"), a
\* pool with the token as token0 or as token1, or a pool that does not hold
\* the token ("foreign"); contracts answer with checksummed addresses
PoolKinds == {"zero", "token0", "token1", "foreign"}
PoolAnswer(k, kind) ==
  [poolAddress |-> IF kind = "zero" THEN ZeroAddress ELSE <<100 + k, "checksum">>,
   token0 |-> IF kind = "token0" THEN <<ProbedToken[1], "checksum">>
              ELSE IF kind = "token1" THEN PairOf(k).address ELSE OtherToken,
   token1 |-> IF kind = "token1" THEN <<ProbedToken[1], "checksum">>
              ELSE PairOf(k).address]

\* no pool was pushed
NoPush == [poolAddress |-> ZeroAddress, token0 |-> Null, token1 |-> Null]

\* a check that takes every pool the factory returns
ContainsToken_Unchecked(token0, token1, tokenAddress) == TRUE

\* line 84, negated: the token is one of the pool's two tokens
ContainsToken(token0, token1, tokenAddress) ==
  ~(token0 # tokenAddress /\ token1 # tokenAddress)

\* lines 90-96
PoolEntry(k, poolAddress) ==
  [address |-> ToLowerCase(poolAddress), pairWith |-> ToLowerCase(PairOf(k).address),
   pairSymbol |-> PairOf(k).symbol, fee |-> FeeOf(k)]

\* processTokenPools hands the token to updateTokenWithPools, which calls
\* findV3Pools (lines 37-49, 116-121)
StartProbe ==
  /\ UNCHANGED <<scanVars, writerVars, batchVars, resolveVars, decodeVars, jobVars, procVars, loopVars>>
  /\ ppc = "idle"
  /\ pruns < MaxRuns
  /\ ppc' = "probe"
  /\ pk' = 1
  /\ pools' = <<>>
  /\ pushed' = NoPush
  /\ perr' = FALSE
  /\ UNCHANGED <<chainPools, pdoc, pruns, pwrote>>

\* lines 54-100, one probe: getPool, liquidity, token0, token1; an error of
\* any of the calls is caught and the probe is over
ProbePool ==
  /\ UNCHANGED <<scanVars, writerVars, batchVars, resolveVars, decodeVars, jobVars, procVars, loopVars>>
  /\ ppc = "probe"
  /\ \E rpc \in {"ok", "error"} :
       LET tokenAddress == ToLowerCase(ProbedToken)
           answer == PoolAnswer(pk, chainPools[pk])
           push == /\ rpc = "ok"
                   /\ answer.poolAddress # ZeroAddress
                   /\ ContainsToken(ToLowerCase(answer.token0), ToLowerCase(answer.token1), tokenAddress)
       IN /\ pools' = IF push THEN Append(pools, PoolEntry(pk, answer.poolAddress)) ELSE pools
          /\ pushed' = IF push THEN answer ELSE NoPush
          /\ perr' = (perr \/ rpc = "error")
  /\ IF pk < Len(COMMON_PAIRS) * Len(FEE_TIERS)
     THEN pk' = pk + 1 /\ UNCHANGED ppc
     ELSE ppc' = "update" /\ UNCHANGED pk
  /\ UNCHANGED <<chainPools, pdoc, pruns, pwrote>>

\* lines 123-152: the pools and hasV3Pool: true, or hasV3Pool: false alone;
\* an error of findOneAndUpdate is caught
UpdateTokenWithPools ==
  /\ UNCHANGED <<scanVars, writerVars, batchVars, resolveVars, decodeVars, jobVars, procVars, loopVars>>
  /\ ppc = "update"
  /\ \E ok \in BOOLEAN :
       /\ pwrote' = ok
       /\ pdoc' = IF ~ok THEN pdoc
                  ELSE IF Len(pools) > 0
                       THEN [pdoc EXCEPT !.v3Pools = pools, !.hasV3Pool = "true"]
                       ELSE [pdoc EXCEPT !.hasV3Pool = "false"]
  /\ ppc' = "idle"
  /\ pruns' = pruns + 1
  /\ UNCHANGED <<chainPools, pk, pools, pushed, perr>>

\* no token is probed
ProbeIdle ==
  /\ chainPools = [k \in Grid |-> "zero"]
  /\ pdoc = [v3Pools |-> <<>>, hasV3Pool |-> "unset"]
  /\ ppc = "idle"
  /\ pk = 1
  /\ pools = <<>>
  /\ pushed = NoPush
  /\ pruns = 0
  /\ pwrote = FALSE
  /\ perr = FALSE

\* ------------------------------------------------------------------------
\* eventDecoder.js: decodeTokenCreatedEvent

\* how long the clock runs, in ms
MaxTime == 3
\* how often the log is decoded
MaxDecodes == 2

\* the logs: data that decodes to (token, legacyDeployer, name), or
\* malformed data, and the block of the log
Logs ==
  [token : {1, 2}, legacyDeployer : {UserA, UserB}, decodable : BOOLEAN,
   blockNumber : {StartHeight, StartHeight + 1}]

\* return null (line 37), in the shape of a token
NullToken ==
  [contractAddress |-> Null, name |-> 0, decimals |-> 0, createdAt |-> 0,
   deployer |-> Null, blockNumber |-> 0]

\* lines 10-39: decodeTokenCreatedEvent(log), called when the clock reads t
DecodeTokenCreatedEvent(log, t) ==
  IF ~log.decodable THEN NullToken
  ELSE [contractAddress |-> ToLowerCase(TokenAddress(log.token)),
        name |-> log.token,
        decimals |-> 18,
        createdAt |-> t,
        deployer |-> ToLowerCase(log.legacyDeployer),
        blockNumber |-> log.blockNumber]

\* a millisecond passes
Tick ==
  /\ UNCHANGED <<scanVars, writerVars, batchVars, resolveVars, probeVars, jobVars, procVars, loopVars>>
  /\ now < MaxTime
  /\ now' = now + 1
  /\ UNCHANGED <<dlog, decoded>>

\* a caller decodes the log (blockchainService.js line 21)
Decode ==
  /\ UNCHANGED <<scanVars, writerVars, batchVars, resolveVars, probeVars, jobVars, procVars, loopVars>>
  /\ Len(decoded) < MaxDecodes
  /\ decoded' = Append(decoded, DecodeTokenCreatedEvent(dlog, now))
  /\ UNCHANGED <<now, dlog>>

\* nothing is decoded
DecodeIdle ==
  /\ now = 0
  /\ dlog = [token |-> 1, legacyDeployer |-> UserA, decodable |-> FALSE, blockNumber |-> StartHeight]
  /\ decoded = <<>>

\* ------------------------------------------------------------------------
\* The pool job: updateExistingTokenPools (collector.js lines 337-364) and
\* processTokenPools (poolService.js lines 160-189)

\* how many tokens the scan cycles insert
MaxPoolTokens == 2
PoolTokens == 1..MaxPoolTokens

\* { limit: 50 }
FindLimit == 50

\* the invocations of processTokenPools that can be in flight at once:
\* cron.schedule('*/30 * * * *', updateExistingTokenPools) does not look at
\* the invocations still running, nor does a scan cycle
PoolJobs == {1, 2}

\* hasV3Pool: { type: Boolean, default: false } (Token.js line 24): the
\* field of a document an upsert has just inserted; storeTokens does not
\* set it, so it is the default when Mongoose applies defaults on insert
\* (which it does from version 6 on unless told otherwise) and missing when
\* it does not
InsertedHasV3Pool(defaults) == IF defaults THEN "false" ELSE "unset"

\* the ids of S in ascending order
RECURSIVE SortedSeq(_)
SortedSeq(S) ==
  IF S = {} THEN <<>>
  ELSE LET m == CHOOSE x \in S : \A y \in S : x <= y
       IN <<m>> \o SortedSeq(S \ {m})

\* a find that returns every document of the collection
FindUnchecked_Every(docs) == SortedSeq({t \in DOMAIN docs : docs[t] # "absent"})

\* Token.find({ hasV3Pool: { $exists: false } }, null, { limit: 50 })
FindUnchecked(docs) ==
  LET all == SortedSeq({t \in DOMAIN docs : docs[t] = "unset"})
  IN SubSeq(all, 1, Min(Len(all), FindLimit))

\* a scan cycle stores a new token: the upsert of storeTokens inserts it
InsertToken(t) ==
  /\ UNCHANGED <<scanVars, writerVars, batchVars, resolveVars, probeVars, decodeVars, procVars, loopVars>>
  /\ tokenDocs[t] = "absent"
  /\ tokenDocs' = [tokenDocs EXCEPT ![t] = InsertedHasV3Pool(setDefaultsOnInsert)]
  /\ UNCHANGED <<setDefaultsOnInsert, jpc, jtokens, ji, jfound, probedTokens>>

\* the startup call (line 374) or a cron tick (line 381) starts
\* updateExistingTokenPools; an invocation takes the lowest free slot
JobBegin(j) ==
  /\ UNCHANGED <<scanVars, writerVars, batchVars, resolveVars, probeVars, decodeVars, procVars, loopVars>>
  /\ jpc[j] = "idle"
  /\ \A i \in PoolJobs : i < j => jpc[i] # "idle"
  /\ jpc' = [jpc EXCEPT ![j] = "find"]
  /\ UNCHANGED <<setDefaultsOnInsert, tokenDocs, jtokens, ji, jfound, probedTokens>>

\* lines 345-359: Token.find; an error (ok = FALSE) or an empty result ends
\* the invocation, else processTokenPools starts on the first token
JobFindStep(j, ok) ==
  /\ UNCHANGED <<scanVars, writerVars, batchVars, resolveVars, probeVars, decodeVars, procVars, loopVars>>
  /\ jpc[j] = "find"
  /\ LET tokensToCheck == IF ok THEN FindUnchecked(tokenDocs) ELSE <<>>
     IN /\ jtokens' = [jtokens EXCEPT ![j] = tokensToCheck]
        /\ ji' = [ji EXCEPT ![j] = IF tokensToCheck = <<>> THEN 0 ELSE 1]
        /\ jpc' = [jpc EXCEPT ![j] = IF tokensToCheck = <<>> THEN "idle" ELSE "probe"]
  /\ UNCHANGED <<setDefaultsOnInsert, tokenDocs, jfound, probedTokens>>

JobFind(j) == \E ok \in BOOLEAN : JobFindStep(j, ok)

\* the older collector's scan cycle (part_002 line 252): once storeTokens
\* has returned, processTokenPools is called with the tokens of the chunk
CycleProcessTokenPools(j) ==
  /\ UNCHANGED <<scanVars, writerVars, batchVars, resolveVars, probeVars, decodeVars, procVars, loopVars>>
  /\ jpc[j] = "idle"
  /\ \A i \in PoolJobs : i < j => jpc[i] # "idle"
  /\ \E chunkTokens \in SUBSET {t \in PoolTokens : tokenDocs[t] # "absent"} :
       /\ chunkTokens # {}
       /\ jtokens' = [jtokens EXCEPT ![j] = SortedSeq(chunkTokens)]
  /\ ji' = [ji EXCEPT ![j] = 1]
  /\ jpc' = [jpc EXCEPT ![j] = "probe"]
  /\ UNCHANGED <<setDefaultsOnInsert, tokenDocs, jfound, probedTokens>>

\* poolService.js line 121: findV3Pools probes the grid for the token and
\* returns its pools, or none
JobProbe(j) ==
  /\ UNCHANGED <<scanVars, writerVars, batchVars, resolveVars, probeVars, decodeVars, procVars, loopVars>>
  /\ jpc[j] = "probe"
  /\ \E found \in BOOLEAN : jfound' = [jfound EXCEPT ![j] = found]
  /\ jpc' = [jpc EXCEPT ![j] = "update"]
  /\ UNCHANGED <<setDefaultsOnInsert, tokenDocs, jtokens, ji, probedTokens>>

\* poolService.js lines 123-152: findOneAndUpdate sets hasV3Pool on the
\* token's document; an error (ok = FALSE) is caught
JobUpdateStep(j, ok) ==
  /\ UNCHANGED <<scanVars, writerVars, batchVars, resolveVars, probeVars, decodeVars, procVars, loopVars>>
  /\ jpc[j] = "update"
  /\ LET t == jtokens[j][ji[j]]
         wrote == ok /\ tokenDocs[t] # "absent"
     IN /\ tokenDocs' = IF wrote THEN [tokenDocs EXCEPT ![t] = IF jfound[j] THEN "true" ELSE "false"]
                        ELSE tokenDocs
        /\ probedTokens' = IF wrote THEN probedTokens \cup {t} ELSE probedTokens
  /\ jpc' = [jpc EXCEPT ![j] = "sleep"]
  /\ jfound' = [jfound EXCEPT ![j] = FALSE]
  /\ UNCHANGED <<setDefaultsOnInsert, jtokens, ji>>

JobUpdate(j) == \E ok \in BOOLEAN : JobUpdateStep(j, ok)

\* poolService.js lines 176-188: the pause after a token, then the next
\* token or the return
JobSleep(j) ==
  /\ UNCHANGED <<scanVars, writerVars, batchVars, resolveVars, probeVars, decodeVars, procVars, loopVars>>
  /\ jpc[j] = "sleep"
  /\ IF ji[j] < Len(jtokens[j])
     THEN /\ ji' = [ji EXCEPT ![j] = @ + 1]
          /\ jpc' = [jpc EXCEPT ![j] = "probe"]
          /\ UNCHANGED jtokens
     ELSE /\ ji' = [ji EXCEPT ![j] = 0]
          /\ jpc' = [jpc EXCEPT ![j] = "idle"]
          /\ jtokens' = [jtokens EXCEPT ![j] = <<>>]
  /\ UNCHANGED <<setDefaultsOnInsert, tokenDocs, jfound, probedTokens>>

\* no pool job runs
JobsIdle ==
  /\ tokenDocs = [t \in PoolTokens |-> "absent"]
  /\ jpc = [j \in PoolJobs |-> "idle"]
  /\ jtokens = [j \in PoolJobs |-> <<>>]
  /\ ji = [j \in PoolJobs |-> 0]
  /\ jfound = [j \in PoolJobs |-> FALSE]
  /\ probedTokens = {}

\* ------------------------------------------------------------------------
\* The process: startup (collector.js lines 13-16, 386-388, 402-405) and
\* shutdown (lines 391-400)

\* every invocation in flight is gone with the process
ProcessGone ==
  /\ scheduled' = FALSE
  /\ pc' = [s \in Slots |-> "idle"]
  /\ currentBlock' = [s \in Slots |-> 0]
  /\ lastProcessedBlock' = [s \in Slots |-> 0]
  /\ startBlock' = [s \in Slots |-> 0]
  /\ chunkStart' = [s \in Slots |-> 0]
  /\ allTokens' = [s \in Slots |-> <<>>]
  /\ queried' = [s \in Slots |-> {}]
  /\ coldStart' = [s \in Slots |-> FALSE]
  /\ lostTokens' = [s \in Slots |-> {}]

\* line 16: await db.connectToDatabase(); it resolves and the startup scan
\* begins (lines 388, 371), or it rejects and the catch of line 402 exits
\* with status 1
ConnectToDatabase ==
  /\ UNCHANGED <<writerVars, batchVars, resolveVars, probeVars, decodeVars, jobVars, loopVars>>
  /\ proc = "connecting"
  /\ \/ /\ proc' = "running"
        /\ pc' = [pc EXCEPT ![1] = "getBlockNumber"]
     \/ /\ proc' = "exit1"
        /\ UNCHANGED pc
  /\ UNCHANGED interrupted
  /\ UNCHANGED <<chainVars, cursorFile, store, scheduled, restarts, currentBlock,
                 lastProcessedBlock, startBlock, chunkStart, allTokens, histVars>>

\* SIGTERM arrives: the handler of line 391, installed once
\* initializeDataFetching has returned, starts closing the connection while
\* the invocations in flight go on; before that the signal ends the process
Sigterm ==
  /\ UNCHANGED <<writerVars, batchVars, resolveVars, probeVars, decodeVars, jobVars, loopVars>>
  /\ proc = "running"
  /\ IF scheduled
     THEN /\ proc' = "closing"
          /\ interrupted' = {s \in Slots : pc[s] # "idle"}
          /\ UNCHANGED <<scheduled, cycleVars, queried, coldStart, lostTokens>>
     ELSE /\ proc' = "killed"
          /\ UNCHANGED interrupted
          /\ ProcessGone
  /\ UNCHANGED <<chainVars, cursorFile, store, restarts, firstScanned, written>>

\* lines 394-398: closeConnection has resolved and process.exit(0) runs, or
\* it has rejected and process.exit(1) runs
ProcessExit ==
  /\ UNCHANGED <<writerVars, batchVars, resolveVars, probeVars, decodeVars, jobVars, loopVars>>
  /\ proc = "closing"
  /\ \E ok \in BOOLEAN : proc' = IF ok THEN "exit0" ELSE "exit1"
  /\ UNCHANGED interrupted
  /\ ProcessGone
  /\ UNCHANGED <<chainVars, cursorFile, store, restarts, firstScanned, written>>

\* ------------------------------------------------------------------------
\* One invocation of fetchAndStoreTokens chunk by chunk and batch by batch
\* (collector.js lines 246-327): the invocation of slot 1, with the loop's
\* CHUNK_SIZE any of ChunkSizes

\* the most blocks between the cursor and the chain height
MaxDistance == 4
\* the chunk sizes tried besides CHUNK_SIZE
MaxChunkSize == 3
ChunkSizes == (1..MaxChunkSize) \cup {CHUNK_SIZE}
\* how many blocks hold logs of the factory, and how many logs each: one,
\* or so many that two blocks fill more than a batch
MaxEventBlocks == 2
LogsPerBlock == {1, maxBatchSize \div 2 + 1}

\* lines 305-308: min(initialDelay * backoffFactor ^ k, maxDelay), k being
\* floor((chunkEnd - startBlock) / CHUNK_SIZE)
RECURSIVE ChunkDelay(_)
ChunkDelay(k) == IF k = 0 THEN Fixed(initialDelay) ELSE DelayAfterPause(ChunkDelay(k - 1))

\* a handler that waits no longer after an error than after the first chunk
ChunkErrorPause_Short == Fixed(initialDelay)

\* line 314: setTimeout(resolve, RATE_LIMIT.maxDelay)
ChunkErrorPause == Fixed(maxDelay)

\* a loop that keeps the tokens of the last chunk only
PushAll_Overwrites(all, tokens) == tokens

\* line 297: allTokens.push(tokenData), for each log of the chunk
PushAll(all, tokens) == all \o tokens

\* lines 250-316, one iteration with the pause that ends it: getLogs
\* resolves and the logs are decoded and pushed, or it rejects (line 311)
CycleQueryChunk ==
  /\ UNCHANGED <<writerVars, batchVars, resolveVars, probeVars, decodeVars, jobVars, procVars>>
  /\ pc[1] = "chunk"
  /\ chunkStart[1] < currentBlock[1]
  /\ LET chunkEnd == ChunkEnd(chunkStart[1], currentBlock[1], chunkSize)
     IN /\ queried' = [queried EXCEPT ![1] = @ \cup {<<chunkStart[1], chunkEnd>>}]
        /\ firstScanned' = IF firstScanned = 0 THEN chunkStart[1] ELSE Min(firstScanned, chunkStart[1])
        /\ \/ /\ allTokens' = [allTokens EXCEPT
                                 ![1] = PushAll(@, DecodeLogs(LogSeq(GetLogs(chunkStart[1], chunkEnd))))]
              /\ cpauses' = IF chunkEnd < currentBlock[1]
                            THEN Append(cpauses, ChunkDelay((chunkEnd - startBlock[1]) \div chunkSize))
                            ELSE cpauses
              /\ UNCHANGED cfailed
           \/ /\ cfailed' = cfailed \cup {<<chunkStart[1], chunkEnd>>}
              /\ cpauses' = Append(cpauses, ChunkErrorPause)
              /\ UNCHANGED allTokens
  /\ chunkStart' = [chunkStart EXCEPT ![1] = @ + chunkSize]
  /\ UNCHANGED <<chainVars, cursorFile, store, scheduled, restarts, pc, currentBlock,
                 lastProcessedBlock, startBlock, coldStart, lostTokens, written, chunkSize>>

\* lines 318-324: the loop is over; processTokensInBatches is called with
\* the accumulated tokens unless there is none
CycleProcessTokens ==
  /\ UNCHANGED <<writerVars, resolveVars, probeVars, decodeVars, jobVars, procVars, loopVars>>
  /\ pc[1] = "chunk"
  /\ chunkStart[1] >= currentBlock[1]
  /\ IF Len(allTokens[1]) > 0
     THEN /\ btokens' = allTokens[1]
          /\ bpc' = "store"
          /\ bidx' = 1
          /\ delay' = Fixed(initialDelay)
          /\ pauses' = <<>>
          /\ handed' = <<>>
     ELSE UNCHANGED batchVars
  /\ pc' = [pc EXCEPT ![1] = "save"]
  /\ UNCHANGED <<chainVars, cursorFile, store, scheduled, restarts, currentBlock, lastProcessedBlock,
                 startBlock, chunkStart, allTokens, histVars>>

\* the chunk loop is not followed with a chunk size of its own
LoopIdle ==
  /\ chunkSize = CHUNK_SIZE
  /\ cpauses = <<>>
  /\ cfailed = {}

\* the later specifications are not followed
AuxIdle ==
  /\ ResolverIdle
  /\ JobsIdle
  /\ setDefaultsOnInsert = TRUE
  /\ proc = "running"
  /\ interrupted = {}
  /\ LoopIdle
  /\ DecodeIdle
  /\ ProbeIdle
  /\ transactions = [i \in {1, 2} |-> [method |-> "other", deployer |-> Null, from |-> RelayAddress]]

\* the process has just started (global.deployerCache is empty); the chain
\* holds some transaction for each hash
InitResolve ==
  /\ ScanIdle
  /\ store = {}
  /\ WritersIdle
  /\ BatcherIdle
  /\ ResolverIdle
  /\ transactions \in [{1, 2} -> TxKinds]
  /\ DecodeIdle
  /\ JobsIdle
  /\ setDefaultsOnInsert = TRUE
  /\ proc = "running"
  /\ interrupted = {}
  /\ LoopIdle
  /\ ProbeIdle

NextResolve == ResolveDeployer \/ ResolveFinalDeployer

SpecResolve == InitResolve /\ [][NextResolve]_vars

\* a stored token that has not been probed; the chain holds a pool at no
\* more than MaxPoolCells probes of the grid
InitProbe ==
  /\ ScanIdle
  /\ store = {}
  /\ WritersIdle
  /\ BatcherIdle
  /\ ResolverIdle
  /\ transactions = [i \in {1, 2} |-> [method |-> "other", deployer |-> Null, from |-> RelayAddress]]
  /\ DecodeIdle
  /\ JobsIdle
  /\ setDefaultsOnInsert = TRUE
  /\ proc = "running"
  /\ interrupted = {}
  /\ LoopIdle
  /\ chainPools \in [Grid -> PoolKinds]
  /\ Cardinality({k \in Grid : chainPools[k] # "zero"}) <= MaxPoolCells
  /\ pdoc = [v3Pools |-> <<>>, hasV3Pool |-> "unset"]
  /\ ppc = "idle"
  /\ pk = 1
  /\ pools = <<>>
  /\ pushed = NoPush
  /\ pruns = 0
  /\ pwrote = FALSE
  /\ perr = FALSE

NextProbe == StartProbe \/ ProbePool \/ UpdateTokenWithPools

SpecProbe == InitProbe /\ [][NextProbe]_vars

\* some log is about to be decoded
InitDecode ==
  /\ ScanIdle
  /\ store = {}
  /\ WritersIdle
  /\ BatcherIdle
  /\ ResolverIdle
  /\ transactions = [i \in {1, 2} |-> [method |-> "other", deployer |-> Null, from |-> RelayAddress]]
  /\ ProbeIdle
  /\ JobsIdle
  /\ setDefaultsOnInsert = TRUE
  /\ proc = "running"
  /\ interrupted = {}
  /\ LoopIdle
  /\ now = 0
  /\ dlog \in Logs
  /\ decoded = <<>>

NextDecode == Tick \/ Decode

SpecDecode == InitDecode /\ [][NextDecode]_vars

\* the process has started with an empty collection; the Mongoose of the
\* build applies defaults on insert, or does not
InitPoolJob ==
  /\ ScanIdle
  /\ store = {}
  /\ WritersIdle
  /\ BatcherIdle
  /\ ResolverIdle
  /\ transactions = [i \in {1, 2} |-> [method |-> "other", deployer |-> Null, from |-> RelayAddress]]
  /\ ProbeIdle
  /\ DecodeIdle
  /\ JobsIdle
  /\ setDefaultsOnInsert \in BOOLEAN
  /\ proc = "running"
  /\ interrupted = {}
  /\ LoopIdle

NextPoolJob ==
  \/ \E t \in PoolTokens : InsertToken(t)
  \/ \E j \in PoolJobs : JobBegin(j)
  \/ \E j \in PoolJobs : JobFind(j)
  \/ \E j \in PoolJobs : CycleProcessTokenPools(j)
  \/ \E j \in PoolJobs : JobProbe(j)
  \/ \E j \in PoolJobs : JobUpdate(j)
  \/ \E j \in PoolJobs : JobSleep(j)

\* cron keeps firing, an invocation that can take a step takes one, and the
\* store answers again and again: a find and a findOneAndUpdate that are
\* tried again and again succeed again and again
FairPoolJob ==
  /\ SF_vars(\E j \in PoolJobs : JobBegin(j))
  /\ \A j \in PoolJobs :
       /\ SF_vars(JobFindStep(j, TRUE))
       /\ WF_vars(JobProbe(j))
       /\ SF_vars(JobUpdateStep(j, TRUE))
       /\ WF_vars(JobSleep(j))

SpecPoolJob == InitPoolJob /\ [][NextPoolJob]_vars /\ FairPoolJob

\* the process has been launched and connects to the database; the state
\* file is missing or was left by an earlier run
InitProcess ==
  /\ height = StartHeight
  /\ events \in {{}} \cup {{[block |-> b, token |-> 1, decodable |-> TRUE]} :
                          b \in {StartHeight - MAX_BLOCKS_PER_SCAN - 1, StartHeight - MAX_BLOCKS_PER_SCAN, StartHeight}}
  /\ growths = 0
  /\ cursorFile \in {NoFile, StartHeight - 1}
  /\ written = cursorFile
  /\ store = {}
  /\ scheduled = FALSE
  /\ restarts = 0
  /\ pc = [s \in Slots |-> "idle"]
  /\ currentBlock = [s \in Slots |-> 0]
  /\ lastProcessedBlock = [s \in Slots |-> 0]
  /\ startBlock = [s \in Slots |-> 0]
  /\ chunkStart = [s \in Slots |-> 0]
  /\ allTokens = [s \in Slots |-> <<>>]
  /\ queried = [s \in Slots |-> {}]
  /\ coldStart = [s \in Slots |-> FALSE]
  /\ lostTokens = [s \in Slots |-> {}]
  /\ firstScanned = 0
  /\ WritersIdle
  /\ BatcherIdle
  /\ ResolverIdle
  /\ transactions = [i \in {1, 2} |-> [method |-> "other", deployer |-> Null, from |-> RelayAddress]]
  /\ ProbeIdle
  /\ DecodeIdle
  /\ JobsIdle
  /\ setDefaultsOnInsert = TRUE
  /\ proc = "connecting"
  /\ interrupted = {}
  /\ LoopIdle

\* the scan cycles of a process that first connects to the database and
\* that may receive SIGTERM
NextProcess ==
  \/ ConnectToDatabase
  \/ Sigterm
  \/ ProcessExit
  \/ AdvanceChain
  \/ \E s \in Slots : Begin(s)
  \/ \E s \in Slots : GetBlockNumber(s)
  \/ \E s \in Slots : ReadCursor(s)
  \/ \E s \in Slots : QueryChunk(s)
  \/ \E s \in Slots : Persist(s)
  \/ \E s \in Slots : SaveCursor(s)

SpecProcess == InitProcess /\ [][NextProcess]_vars

\* an invocation is about to read the chain height, or has read it and the
\* chain may have grown since; the state file holds a cursor up to
\* MaxDistance blocks behind the height read, and the factory's logs lie in
\* up to MaxEventBlocks of the last blocks, in each of them the same number
\* of logs, of which the first or the second may be one that does not decode
InitCycle ==
  /\ height \in {StartHeight, StartHeight + 1}
  /\ growths = height - StartHeight
  /\ \E B \in SUBSET ((StartHeight - MaxDistance)..StartHeight), n \in LogsPerBlock, u \in 0..2 :
       /\ Cardinality(B) <= MaxEventBlocks
       /\ u <= n
       /\ events = {[block |-> b, token |-> (StartHeight - b) * maxBatchSize + i, decodable |-> (i # u)] :
                      b \in B, i \in 1..n}
  /\ cursorFile \in {StartHeight - d : d \in 0..MaxDistance}
  /\ written = cursorFile
  /\ store = {}
  /\ scheduled = TRUE
  /\ restarts = 0
  /\ \/ /\ height = StartHeight
        /\ pc = [s \in Slots |-> IF s = 1 THEN "getBlockNumber" ELSE "idle"]
        /\ currentBlock = [s \in Slots |-> 0]
     \/ /\ pc = [s \in Slots |-> IF s = 1 THEN "getLastProcessedBlock" ELSE "idle"]
        /\ currentBlock = [s \in Slots |-> IF s = 1 THEN StartHeight ELSE 0]
  /\ lastProcessedBlock = [s \in Slots |-> 0]
  /\ startBlock = [s \in Slots |-> 0]
  /\ chunkStart = [s \in Slots |-> 0]
  /\ allTokens = [s \in Slots |-> <<>>]
  /\ queried = [s \in Slots |-> {}]
  /\ coldStart = [s \in Slots |-> FALSE]
  /\ lostTokens = [s \in Slots |-> {}]
  /\ firstScanned = 0
  /\ WritersIdle
  /\ BatcherIdle
  /\ ResolverIdle
  /\ transactions = [i \in {1, 2} |-> [method |-> "other", deployer |-> Null, from |-> RelayAddress]]
  /\ ProbeIdle
  /\ DecodeIdle
  /\ JobsIdle
  /\ setDefaultsOnInsert = TRUE
  /\ proc = "running"
  /\ interrupted = {}
  /\ chunkSize \in ChunkSizes
  /\ cpauses = <<>>
  /\ cfailed = {}

NextCycle ==
  \/ GetBlockNumber(1)
  \/ ReadCursor(1)
  \/ CycleQueryChunk
  \/ CycleProcessTokens
  \/ BatchStore
  \/ BatchSleep
  \/ SaveCursor(1)

SpecCycle == InitCycle /\ [][NextCycle]_vars

Init == InitScan /\ WritersIdle /\ BatcherIdle /\ AuxIdle

\* two callers about to deliver their tokens, caller 1 up to MaxDelivery of
\* them and the other at most one; the
\* collection is empty or holds a document of an earlier run
InitStore ==
  /\ ScanIdle
  /\ BatcherIdle
  /\ AuxIdle
  /\ store \in {{}, {PriorDoc}}
  /\ wtokens \in [Writers -> Deliveries]
  /\ Len(wtokens[1]) > 0
  /\ \A w \in Writers \ {1} : Len(wtokens[w]) <= 1
  /\ wpc = [w \in Writers |-> "idle"]
  /\ wi = [w \in Writers |-> 0]
  /\ winsert = [w \in Writers |-> FALSE]
  /\ werr = [w \in Writers |-> FALSE]
  /\ wnew = [w \in Writers |-> 0]
  /\ wupd = [w \in Writers |-> 0]
  /\ wcalls = [w \in Writers |-> 0]
  /\ wres = [w \in Writers |-> NoResult]
  /\ wsnap = [w \in Writers |-> {}]
  /\ wskipped = [w \in Writers |-> FALSE]
  /\ interfered = FALSE
  /\ dupKey = FALSE

Next ==
  \/ AdvanceChain
  \/ Restart
  \/ \E s \in Slots : Begin(s)
  \/ \E s \in Slots : GetBlockNumber(s)
  \/ \E s \in Slots : ReadCursor(s)
  \/ \E s \in Slots : QueryChunk(s)
  \/ \E s \in Slots : Persist(s)
  \/ \E s \in Slots : SaveCursor(s)


Spec == Init /\ [][Next]_vars

\* processTokensInBatches is called with up to MaxTokens tokens
InitBatch ==
  /\ ScanIdle
  /\ store = {}
  /\ WritersIdle
  /\ AuxIdle
  /\ \E n \in 0..MaxTokens : btokens = [i \in 1..n |-> i]
  /\ bpc = IF Len(btokens) = 0 THEN "done" ELSE "store"
  /\ bidx = 1
  /\ delay = Fixed(initialDelay)
  /\ pauses = <<>>
  /\ handed = <<>>

NextBatch == BatchStore \/ BatchSleep

SpecBatch == InitBatch /\ [][NextBatch]_vars

NextStore ==
  \/ \E w \in Writers : CallStoreTokens(w)
  \/ \E w \in Writers : BulkOp(w)
  \/ \E w \in Writers : BulkInsert(w)
  \/ \E w \in Writers : IndividualOp(w)
  \/ \E w \in Writers : IndividualInsert(w)

SpecStore == InitStore /\ [][NextStore]_vars

\* ------------------------------------------------------------------------
\* The scan cycle and its cursor

\* the invocations between their cursor read and their cursor write
InCycle == {s \in Slots : pc[s] \in {"chunk", "save"}}

\* the store holds the token of event e
Stored(e) == \E d \in store : d.contractAddress = ToLowerCase(TokenAddress(e.token))

\* C1: fetchAndStoreTokens never runs in two overlapping invocations: at
\* most one invocation is between its cursor read and its cursor write.
C1_NoOverlap == Cardinality(InCycle) <= 1

\* C2: the persisted lastProcessedBlock never decreases, and every write
\* sets it to a value no greater than the chain height the writing
\* invocation read at its start.
C2_CursorMonotone ==
  [][/\ GetLastProcessedBlock(cursorFile') >= GetLastProcessedBlock(cursorFile)
     /\ cursorFile' # cursorFile =>
          \E s \in Slots : pc[s] = "save" /\ pc'[s] = "idle" /\ cursorFile' <= currentBlock[s]]_vars

\* C3: every decodable TokenCreated event of a block between the first
\* block ever scanned and lastProcessedBlock is present in the store.
C3_StoredBeforeCursor ==
  \A e \in events :
    (/\ e.decodable
     /\ firstScanned # 0
     /\ firstScanned <= e.block
     /\ e.block <= GetLastProcessedBlock(cursorFile)) => Stored(e)

\* C4: when currentHeight - lastProcessedBlock exceeds MAX_BLOCKS_PER_SCAN
\* (the cursor being one a cycle has written), the cycle queries the slice
\* that starts right after the cursor and is MAX_BLOCKS_PER_SCAN blocks
\* long, so that no block after the old cursor is skipped.
C4_LeadingSlice ==
  \A s \in Slots :
    (/\ pc[s] = "save"
     /\ ~coldStart[s]
     /\ currentBlock[s] - lastProcessedBlock[s] > MAX_BLOCKS_PER_SCAN) =>
      /\ \E q \in queried[s] : q[1] = lastProcessedBlock[s] + 1
      /\ \E q \in queried[s] : q[2] = lastProcessedBlock[s] + MAX_BLOCKS_PER_SCAN
      /\ \A q \in queried[s] : /\ q[1] >= lastProcessedBlock[s] + 1
                               /\ q[2] <= lastProcessedBlock[s] + MAX_BLOCKS_PER_SCAN

\* C5: if the storage step of a cycle fails (a decoded token is written by
\* neither the bulk write nor the fallback), the cycle leaves the persisted
\* cursor at its pre-cycle value.
C5_CursorKeptOnStoreFailure ==
  [][\A s \in Slots :
       (pc[s] = "save" /\ pc'[s] = "idle" /\ lostTokens[s] # {}) => cursorFile' = cursorFile]_vars

\* C6: on a cold start (no persisted cursor) at chain height H the first
\* cycle queries exactly the blocks H - window + 1 through H, the window
\* being the most blocks one scan covers.
C6_ColdStartWindow ==
  \A s \in Slots :
    (pc[s] = "save" /\ coldStart[s]) =>
      queried[s] = {<<currentBlock[s] - MAX_BLOCKS_PER_SCAN + 1, currentBlock[s]>>}

C8_Idempotent ==
  (/\ wcalls[1] = 2
   /\ wpc[1] \in {"idle", "done"}
   /\ ~wskipped[1]
   /\ ~interfered) =>
    /\ store = wsnap[1]
    /\ wres[1].newTokens = 0

\* C9: whatever the callers deliver, on whichever path and however their
\* operations interleave, the collection holds at most one document per
\* contractAddress, and every contractAddress is in lower case.
C9_OneRecordPerAddress ==
  /\ \A d \in store : d.contractAddress = ToLowerCase(d.contractAddress)
  /\ \A d1, d2 \in store : d1.contractAddress = d2.contractAddress => d1 = d2

\* two callers raced to insert the same address, the index refused one of
\* the inserts, and the address has its one document
C9_Witness ==
  /\ dupKey
  /\ interfered
  /\ \A w \in Writers : wpc[w] = "done"
  /\ Cardinality({d \in store : d.contractAddress = <<1, "lower">>}) = 1

\* ------------------------------------------------------------------------
\* The batcher

\* C10: within one invocation of processTokensInBatches the delay never
\* decreases and never exceeds maxDelay.
C10_DelayMonotoneBounded ==
  /\ [](delay <= Fixed(maxDelay))
  /\ [][delay' >= delay]_vars

\* an invocation of several batches, one of which failed, has driven the
\* delay to the cap
C10_Witness ==
  /\ bpc = "done"
  /\ Len(handed) >= 4
  /\ Len(pauses) < Len(handed) - 1
  /\ delay = Fixed(maxDelay)

\* ------------------------------------------------------------------------
\* The deployer

\* C11: for a transaction hash of the override table, in whichever case it
\* is spelt, the resolver returns the table's address whatever the calldata
\* and the cache are, and does not fetch the transaction.
C11_OverrideWins ==
  (rcalls > 0 /\ ToLowerCase(rTx) = KnownHash) =>
    /\ rResult = KnownDeployer
    /\ ~rFetched

\* the known hash, spelt in upper case, is resolved a second time, from the
\* cache, while its calldata names another deployer
C11_Witness ==
  /\ rcalls >= 2
  /\ rTx = <<1, "upper">>
  /\ deployerCache[<<1, "upper">>] = KnownDeployer
  /\ deployerCache[KnownHash] = KnownDeployer
  /\ transactions[1].deployer = UserA
  /\ rResult = KnownDeployer

\* C12: a deployer taken from the calldata (path 2) or from the event's
\* legacyDeployer (path 3) is never an excluded address; a recorded deployer
\* that is excluded came from the transaction sender (path 4).
C12_NoExcludedDeployer ==
  (rcalls > 0 /\ rEmitted) =>
    /\ rPath \in {2, 3} => ~ShouldExcludeAddress(rDeployer)
    /\ (rDeployer \notin {Null, Unknown} /\ ShouldExcludeAddress(rDeployer)) => rPath = 4

\* the calldata names the relay, which is refused, and the event's
\* legacyDeployer is taken
C12_Witness ==
  /\ rcalls > 0
  /\ rEmitted
  /\ rPath = 3
  /\ rTx = <<2, "lower">>
  /\ transactions[2].deployer = RelayAddress
  /\ rFetched
  /\ ~rFailed
  /\ rDeployer = ToLowerCase(UserB)

\* C13: when the fetch of the transaction fails or returns nothing during
\* the resolution of a log's deployer (the last fetch made for the log, the
\* one of the sender fallback included), the token is still pushed, its
\* deployer being null or 'unknown' unless the event's legacyDeployer was
\* taken.
C13_FetchFailureKeepsToken ==
  (rcalls > 0 /\ rFailed) =>
    /\ rEmitted
    /\ rPath # 3 => rDeployer \in {Null, Unknown}

\* ------------------------------------------------------------------------
\* Pool discovery

\* the probe that pushed the pool entry e
CellOf(e) == CHOOSE k \in Grid : PoolEntry(k, <<100 + k, "checksum">>) = e

\* C14: findV3Pools pushes a pool only when the factory returned a non-zero
\* address and the pool's token0 or token1 is the probed token; the list
\* holds no pool of another probe answer.
C14_NoFalsePool ==
  /\ pushed # NoPush =>
       /\ pushed.poolAddress # ZeroAddress
       /\ \/ ToLowerCase(pushed.token0) = ToLowerCase(ProbedToken)
          \/ ToLowerCase(pushed.token1) = ToLowerCase(ProbedToken)
  /\ \A i \in 1..Len(pools) : chainPools[CellOf(pools[i])] \in {"token0", "token1"}

\* the factory returned a pool that does not hold the token, it was left
\* out, and a later pool that holds the token as token1 was pushed
C14_Witness ==
  /\ ppc = "probe"
  /\ Len(pools) = 1
  /\ pushed # NoPush
  /\ ToLowerCase(pushed.token1) = ToLowerCase(ProbedToken)
  /\ \E k \in 1..(pk - 2) : chainPools[k] = "foreign"

\* C15: when a run of pool discovery has found no pool and has written, the
\* stored token has hasV3Pool false and an empty pool list, whatever its
\* pool list was before the run.
C15_NoPoolMeansEmptyList ==
  (ppc = "idle" /\ pruns > 0 /\ pwrote /\ pools = <<>>) =>
    /\ pdoc.hasV3Pool = "false"
    /\ pdoc.v3Pools = <<>>

\* ------------------------------------------------------------------------
\* The decoder

\* C16: two calls of decodeTokenCreatedEvent on the same log, at any two
\* times, return equal values.
C16_DecodeDeterministic ==
  Len(decoded) = 2 => decoded[1] = decoded[2]

\* C17: every token a scan cycle has inserted is eventually selected by the
\* pool job and given its marker by updateTokenWithPools.
C17_EventuallyProbed ==
  \A t \in PoolTokens : (tokenDocs[t] # "absent") ~> (t \in probedTokens)

\* C19: the pool lookups of two different tokens are never in flight at the
\* same time, whichever invocations of processTokenPools they belong to.
C19_OneTokenInFlight ==
  \A i, j \in PoolJobs :
    (jpc[i] = "probe" /\ jpc[j] = "probe") => jtokens[i][ji[i]] = jtokens[j][ji[j]]

\* ------------------------------------------------------------------------
\* The process

\* C18: once SIGTERM has been received, an invocation that was in flight
\* when it arrived does not write the cursor unless the tokens of its range
\* were stored.
C18_ShutdownKeepsCursor ==
  [][\A s \in interrupted :
       (proc = "closing" /\ pc[s] = "save" /\ pc'[s] = "idle" /\ cursorFile' # cursorFile) =>
         lostTokens[s] = {}]_vars

\* C20: when the database connection cannot be established, or the startup
\* scan cannot obtain the chain height, the process exits with a non-zero
\* status and schedules no scan.
C20_FatalStartup ==
  [][/\ (proc = "connecting" /\ proc' \notin {"connecting", "running"}) =>
          (proc' = "exit1" /\ ~scheduled')
     /\ (proc = "running" /\ ~scheduled /\ pc[1] = "getBlockNumber" /\ pc'[1] = "idle"
           /\ proc' # "killed") => (proc' = "exit1" /\ ~scheduled')]_vars

\* ------------------------------------------------------------------------
\* The range of a cycle

\* C21: in a cycle whose unscanned range does not exceed MAX_BLOCKS_PER_SCAN
\* the blocks queried are lastProcessedBlock + 1 through currentBlock: the
\* first block queried is lastProcessedBlock + 1 and no block at or below
\* lastProcessedBlock is queried.
C21_RangeStartsAfterCursor ==
  \A s \in Slots :
    (/\ pc[s] = "save"
     /\ currentBlock[s] - lastProcessedBlock[s] <= MAX_BLOCKS_PER_SCAN) =>
      /\ \E q \in queried[s] : q[1] = lastProcessedBlock[s] + 1
      /\ \A q \in queried[s] : q[1] > lastProcessedBlock[s]

C25_CursorAfterBatches ==
  [][/\ cursorFile' # cursorFile => (pc[1] = "save" /\ pc'[1] = "idle")
     /\ (pc[1] = "save" /\ pc'[1] = "idle") =>
          /\ Len(allTokens[1]) = IF handed = <<>> THEN 0
                                 ELSE (Len(handed) - 1) * maxBatchSize + Len(handed[Len(handed)])
          /\ cursorFile' \in {cursorFile, currentBlock[1]}
          /\ written' \in {written, currentBlock[1]}]_vars

\* a cycle of two batches has written the height it read, the chain having
\* grown in the meantime
C25_Witness ==
  /\ pc[1] = "idle"
  /\ bpc = "done"
  /\ Len(handed) = 2
  /\ cursorFile = StartHeight
  /\ written = StartHeight
  /\ height > StartHeight

\* C26: a cycle that ends without reaching its cursor write (the chain
\* height could not be read, or it is not above the cursor) leaves the
\* persisted cursor as it was before the cycle.
C26_AbortKeepsCursor ==
  [][\A s \in Slots :
       (pc[s] \in {"getBlockNumber", "getLastProcessedBlock", "chunk"} /\ pc'[s] = "idle") =>
         /\ cursorFile' = cursorFile
         /\ written' = written]_vars

\* the invocation has returned without a single getLogs query although the
\* cursor was below the chain height (the height could not be read): the
\* state file is as it was
C26_Witness ==
  /\ pc[1] = "idle"
  /\ firstScanned = 0
  /\ cursorFile = StartHeight - MaxDistance
  /\ written = cursorFile

\* ------------------------------------------------------------------------
\* The batches

\* C27: processTokensInBatches partitions its input: every token is in
\* exactly one batch, the batches keep the input's order, every batch but
\* the last has maxBatchSize tokens, the last has between 1 and
\* maxBatchSize, and the store is called once per batch.
C27_BatchesPartition ==
  LET B == Batches(btokens)
      N == Len(B)
  IN /\ \A k \in 1..(N - 1) : Len(B[k]) = maxBatchSize
     /\ N > 0 => (1 <= Len(B[N]) /\ Len(B[N]) <= maxBatchSize)
     /\ Len(btokens) = IF N = 0 THEN 0 ELSE (N - 1) * maxBatchSize + Len(B[N])
     /\ \A k \in 1..N : \A i \in 1..Len(B[k]) : B[k][i] = btokens[(k - 1) * maxBatchSize + i]
     /\ Len(handed) <= N
     /\ bpc = "done" => Len(handed) = N

\* an input of two full batches and one token has been through the store
C27_Witness ==
  /\ bpc = "done"
  /\ Len(btokens) = 2 * maxBatchSize + 1
  /\ Len(handed) = 3
  /\ Len(handed[3]) = 1

\* C28: between every two consecutive batches of an invocation the batcher
\* pauses for the current delay, whether the earlier batch succeeded or
\* failed, and the first pause of an invocation lasts initialDelay.
C28_PauseBetweenBatches ==
  /\ [][(handed' # handed /\ handed # <<>>) => Len(pauses) = Len(handed)]_vars
  /\ [](pauses # <<>> => pauses[1] = Fixed(initialDelay))

\* C29 as stated: when a batch fails, the delay becomes
\* min(delay * backoffFactor, maxDelay).
C29_OneStepEscalation ==
  [][(bpc = "store" /\ (bpc' = "store" \/ delay' # delay)) =>
       delay' = Min((delay * 3) \div 2, Fixed(maxDelay))]_vars

\* C29 as amended: when a batch fails, the delay becomes
\* min(delay * backoffFactor * 2, maxDelay), three times the delay or the
\* cap.
C29_DoubleStepEscalation ==
  [][(bpc = "store" /\ (bpc' = "store" \/ delay' # delay)) =>
       delay' = Min(delay * 3, Fixed(maxDelay))]_vars

\* the first batch has failed: the second is next, without a pause, and the
\* delay is three times initialDelay
C29_Witness ==
  /\ bpc = "store"
  /\ bidx = 2
  /\ pauses = <<>>
  /\ delay = 3 * Fixed(initialDelay)

\* C30: a failure of a batch does not stop the batcher: every call of the
\* store hands it the next batch, and when the invocation is over every
\* batch has been handed to it once, whatever the outcomes were.
C30_AllBatchesHanded ==
  /\ [][handed' # handed => handed' = Append(handed, Batches(btokens)[Len(handed) + 1])]_vars
  /\ [](bpc = "done" => handed = Batches(btokens))

\* three batches have been handed over although the first two failed
C30_Witness ==
  /\ bpc = "done"
  /\ Len(handed) = 3
  /\ pauses = <<>>
  /\ delay > Fixed(initialDelay)

\* C31: when the bulk write of a batch has failed, the fallback upserts the
\* tokens of the batch one by one from the first to the last, each once: it
\* begins at the first token, every upsert that ends, failed or not, is
\* followed by the upsert of the next token, and the call returns only
\* after the last token; a bulk write none of whose operations failed
\* returns without the fallback.
C31_FallbackAttemptsEachOnce ==
  [][\A w \in Writers :
       /\ (wpc[w] = "bulk" /\ wpc'[w] = "individual") => (wi[w] = Len(wtokens[w]) /\ wi'[w] = 1)
       /\ (wpc[w] = "bulk" /\ wpc'[w] \in {"idle", "done"}) => ~werr[w]
       /\ (wpc[w] = "bulk" /\ werr[w]) => wpc'[w] \in {"bulk", "individual"}
       /\ (wpc[w] = "individual" /\ wpc'[w] = "individual" /\ wi'[w] # wi[w]) => wi'[w] = wi[w] + 1
       /\ (wpc[w] = "individual" /\ wskipped'[w] /\ ~wskipped[w] /\ wi[w] < Len(wtokens[w])) =>
            (wpc'[w] = "individual" /\ wi'[w] = wi[w] + 1)
       /\ (wpc[w] = "individual" /\ wpc'[w] # "individual") => wi[w] = Len(wtokens[w])]_vars

\* the fallback of caller 1 has skipped its first token and is at the second
C31_Witness ==
  /\ wpc[1] = "individual"
  /\ wi[1] = 2
  /\ wskipped[1]
  /\ wcalls[1] = 0

\* C32: for a transaction hash the override table lacks, the token is
\* emitted with a deployer, which is the deployer argument of the calldata
\* when that is a valid address that is not excluded, otherwise the
\* event's legacyDeployer when that is not excluded, otherwise the sender
\* of the transaction.
C32_DeployerPriority ==
  (rcalls > 0 /\ KNOWN_DEPLOYERS(NormalizeTxHash(rTx)) = Null) =>
    LET tx == transactions[rTx[1]]
        arg == IF tx.method = "deployToken" /\ ~ShouldExcludeAddress(tx.deployer)
               THEN tx.deployer ELSE Null
    IN /\ rEmitted
       /\ rDeployer \notin {Null, Unknown}
       /\ (arg # Null /\ ~rFailed) => rDeployer = ToLowerCase(arg)
       /\ (arg = Null \/ rFailed) =>
            \/ rDeployer \in {ToLowerCase(l) : l \in {x \in LegacyDeployers : ~ShouldExcludeAddress(x)}}
            \/ rDeployer = ToLowerCase(tx.from)

\* C33: a resolution of the transaction hash that the resolution before it
\* resolved returns what that one returned, and does not call
\* getTransaction, whatever the earlier result was.
C33_ResolutionMemoized ==
  [][(rcalls > 0 /\ rcalls' = rcalls + 1 /\ rTx' = rTx) =>
       (rResult' = rResult /\ ~rFetched')]_vars

\* C34: a log that cannot be decoded contributes no token, and every
\* decodable log of a chunk whose query succeeded has its token among the
\* accumulated ones, whether it lies before or after an undecodable log of
\* the chunk; the query of a chunk that holds an undecodable log is followed
\* by the next iteration of the chunk loop.
C34_BadLogSkipped ==
  /\ [](pc[1] \in {"chunk", "save"} =>
          /\ \A i \in 1..Len(allTokens[1]) :
               \E e \in events : e.decodable /\ e.token = allTokens[1][i].name
                                  /\ e.block = allTokens[1][i].blockNumber
          /\ \A q \in queried[1] \ cfailed : \A e \in GetLogs(q[1], q[2]) :
               e.decodable =>
                 Cardinality({i \in 1..Len(allTokens[1]) : allTokens[1][i].name = e.token}) = 1)
  /\ [][(queried' # queried /\ \E q \in queried'[1] \ queried[1] :
                                  \E e \in GetLogs(q[1], q[2]) : ~e.decodable) =>
          /\ pc'[1] = "chunk"
          /\ chunkStart'[1] = chunkStart[1] + chunkSize]_vars

\* the chunk loop is over; one chunk held an undecodable log between two
\* decodable ones, and the tokens of both are accumulated
C34_Witness ==
  /\ pc[1] = "save"
  /\ \E q \in queried[1] \ cfailed : \E e, f, g \in GetLogs(q[1], q[2]) :
       /\ e.block = f.block /\ f.block = g.block
       /\ e.token < f.token /\ f.token < g.token
       /\ e.decodable /\ ~f.decodable /\ g.decodable
       /\ \E i, j \in 1..Len(allTokens[1]) :
            i < j /\ allTokens[1][i].name = e.token /\ allTokens[1][j].name = g.token

\* C35: updateTokenWithPools writes hasV3Pool: false only at the end of a
\* run of findV3Pools in which no probe of the grid was ended by a provider
\* error and no probe found a verified pool.
C35_NoPoolOnlyAfterFullGrid ==
  [][(ppc = "update" /\ pwrote' /\ pdoc'.hasV3Pool = "false") =>
       (~perr /\ pools = <<>>)]_vars

\* collections of FindLimit - 1 to FindLimit + 1 documents, all without a
\* marker or all but the first: what Token.find returns for them is the
\* unmarked documents, at most FindLimit of them
C36_FindKeepsLimit ==
  \A n \in (FindLimit - 1)..(FindLimit + 1) : \A m \in {0, 1} :
    LET docs == [t \in 1..n |-> IF t <= m THEN "false" ELSE "unset"]
        found == FindUnchecked(docs)
    IN /\ Len(found) = Min(n - m, FindLimit)
       /\ \A i \in 1..Len(found) : docs[found[i]] = "unset"

\* C36: the tokens updateExistingTokenPools selects are never tokens for
\* which updateTokenWithPools has written hasV3Pool, true or false; a token
\* without a marker whose findOneAndUpdate failed is still without one and
\* is among those a find then returns; and a find returns at most FindLimit
\* tokens.
C36_MarkedNeverSelected ==
  /\ [][\A j \in PoolJobs :
          /\ (jpc[j] = "find" /\ jpc'[j] = "probe") =>
               /\ Len(jtokens'[j]) <= FindLimit
               /\ \A i \in 1..Len(jtokens'[j]) :
                    /\ jtokens'[j][i] \notin probedTokens
                    /\ tokenDocs[jtokens'[j][i]] \notin {"true", "false"}
          /\ (jpc[j] = "update" /\ jpc'[j] = "sleep" /\ tokenDocs' = tokenDocs
                /\ tokenDocs[jtokens[j][ji[j]]] = "unset") =>
               \E i \in 1..Len(FindUnchecked(tokenDocs')) :
                 FindUnchecked(tokenDocs')[i] = jtokens[j][ji[j]]]_vars
  /\ []C36_FindKeepsLimit

\* token 1 has its marker and a run that found token 2 alone is probing it
C36_Witness ==
  /\ ~setDefaultsOnInsert
  /\ 1 \in probedTokens
  /\ tokenDocs[1] \in {"true", "false"}
  /\ \E j \in PoolJobs :
       /\ jpc[j] = "probe"
       /\ jtokens[j] = <<2>>
       /\ \A i \in PoolJobs \ {j} : jpc[i] = "idle"

\* C37: for the tokens a caller delivers and the collection as it is, a
\* call of storeTokens whose bulk write fails and whose fallback upserts
\* every token leaves the collection as a call whose bulk write succeeds
\* would: the same documents with the same field values.
C37_FallbackEqualsBulk ==
  \A w \in Writers :
    LET all == 1..Len(wtokens[w])
    IN StoreTokens(store, wtokens[w], {}, all) = StoreTokens(store, wtokens[w], all, {})

C39_StoreTokensAlwaysReturns ==
  /\ [][\A w \in Writers :
          (wpc[w] \in {"idle", "bulk", "individual"} /\ wpc'[w] \in {"idle", "done"}
            /\ wpc'[w] # wpc[w]) =>
             /\ wcalls'[w] = wcalls[w] + 1
             /\ wres'[w].success
             /\ wres'[w].newTokens + wres'[w].updatedTokens <= Len(wtokens[w])]_vars
  /\ [](\A w \in Writers :
          /\ wpc[w] \in {"idle", "bulk", "individual", "done"}
          /\ wcalls[w] > 0 =>
               /\ wres[w].success
               /\ wres[w].newTokens + wres[w].updatedTokens <= Len(wtokens[w]))

\* caller 1 has a call behind it whose bulk write failed and whose fallback
\* skipped a token: it returned, counting fewer tokens than it was given
C39_Witness ==
  /\ wcalls[1] > 0
  /\ wskipped[1]
  /\ wres[1].success
  /\ wres[1].newTokens + wres[1].updatedTokens < Len(wtokens[1])

====
